---- MODULE Spec2Model ----
(***************************************************************************)
(* Model of the LTI 1.3 Consumer security core of ltijs                    *)
(* (src/src/Consumer/Consumer.js): the Consumer route handlers and the     *)
(* Auth class (login request validation, deep linking response validation, *)
(* access token generation and validation) with the nonce collection of    *)
(* the database as the shared mutable state.                               *)
(*                                                                         *)
(* JavaScript values are modelled as follows.  A string parameter that is  *)
(* undefined or empty (both falsy) is Absent.  A compact JWT is a record   *)
(* [alg, kid, signer, payload]; signer names the key that produced the     *)
(* signature.  A JWT parameter that was not sent is Missing and a string   *)
(* that is not a JWT is Malformed.  A thrown Error is its message.         *)
(***************************************************************************)
EXTENDS Integers, Sequences, FiniteSets, TLC

----------------------------------------------------------------------------
(* Bounds *)

NumNonces == 2

NumProcs == 2

MaxScopeLen == 3

MaxTicks == 3

MaxHeaderLen == 3

----------------------------------------------------------------------------
(* Values *)

Absent == ""

Missing == [missing |-> TRUE]

Malformed == [malformed |-> TRUE]

Null == [null |-> TRUE]

NoNonce == 0

Nonce == 1 .. NumNonces

Continue == "CONTINUE"

RESOURCE_LAUNCH == "RESOURCE_LAUNCH"

DEEPLINKING_LAUNCH == "DEEPLINKING_LAUNCH"

DEEPLINKING_RESPONSE == "DEEPLINKING_RESPONSE"

\* this.#ENCRYPTIONKEY, the secret the launch hints are signed with
ENCRYPTIONKEY == "syskey"

\* this.#consumer: url, accesstokenRoute, deepLinkingRequestRoute, membershipsRoute
consumer == [url |-> "https://lms", accesstokenRoute |-> "/accesstoken",
             deepLinkingRequestRoute |-> "/deeplinking", membershipsRoute |-> "/memberships"]

----------------------------------------------------------------------------
(* The Tool registry (Tool.getTool) *)

Registry0 ==
  [t \in {"t1", "t2"} |->
     IF t = "t1"
     THEN [deploymentId |-> "d1", redirectionURIs |-> <<"u1">>,
           authConfig |-> [method |-> "RSA_KEY", key |-> "k1"],
           scopes |-> <<"MEMBERSHIPS">>, privacy |-> "EMAIL",
           name |-> "Tool 1", kid |-> "ckid1", privateKey |-> "ck1",
           customParameters |-> [a |-> "tool-a", b |-> "tool-b"]]
     ELSE [deploymentId |-> "d2", redirectionURIs |-> <<"u1", "u2">>,
           authConfig |-> [method |-> "JWK_SET", key |-> "https://tool2/keys"],
           scopes |-> <<"MEMBERSHIPS", "LINEITEM">>, privacy |-> "COMPLETE",
           name |-> "Tool 2", kid |-> "ckid2", privateKey |-> "ck2",
           customParameters |-> [a |-> "tool2-a"]]]

\* Tool.getTool(clientId): the Tool, or false (Null) when it is not registered
getTool(reg, clientId) == IF clientId \in DOMAIN reg THEN reg[clientId] ELSE Null

\* Array.prototype.includes
includes(arr, v) == \E i \in 1 .. Len(arr) : arr[i] = v

\* Tool.updateTool(clientId, toolInfo): the fields given in toolInfo replace the Tool's
updateTool(reg, clientId, toolInfo) ==
  IF clientId \in DOMAIN reg THEN [reg EXCEPT ![clientId] = toolInfo @@ @] ELSE reg

\* Tool.deleteTool(clientId)
deleteTool(reg, clientId) == [t \in DOMAIN reg \ {clientId} |-> reg[t]]

\* the privacy levels helper
privacyLevels == [NONE |-> "NONE", EMAIL |-> "EMAIL", NAME |-> "NAME",
                  COMPLETE |-> "COMPLETE", INHERIT |-> "INHERIT"]

----------------------------------------------------------------------------
(* The ToolLink registry (ToolLink.getToolLink) *)

ToolLinks0 ==
  [l \in {"link1"} |->
     [url |-> "https://tool1/link1", privacy |-> privacyLevels.INHERIT,
      customParameters |-> [b |-> "link-b", c |-> "link-c"]]]

\* ToolLink.getToolLink(id): the ToolLink, or false (Null) when there is none
getToolLink(lnk, id) == IF id \in DOMAIN lnk THEN lnk[id] ELSE Null

\* ToolLink.updateToolLink(id, toolLinkInfo)
updateToolLink(lnk, id, toolLinkInfo) ==
  IF id \in DOMAIN lnk THEN [lnk EXCEPT ![id] = toolLinkInfo @@ @] ELSE lnk

\* ToolLink.deleteToolLink(id)
deleteToolLink(lnk, id) == [l \in DOMAIN lnk \ {id} |-> lnk[l]]

----------------------------------------------------------------------------
(* The nonce collection of the database *)

\* Database.get('nonce', { nonce }): truthy iff a record with this nonce exists
DatabaseGet(db, nonce) == db[nonce] > 0

\* Database.insert('nonce', { nonce }): adds one record
DatabaseInsert(db, nonce) == [db EXCEPT ![nonce] = @ + 1]

----------------------------------------------------------------------------
(* jsonwebtoken *)

\* jwtVerifySecret accepting a token whatever key signed it
jwtVerifySecret_AnyKey(token, secret) ==
  /\ token # Missing
  /\ token # Malformed

\* jwt.verify(token, secret): the launch hint is signed with the consumer's secret
jwtVerifySecret(token, secret) ==
  /\ token # Missing
  /\ token # Malformed
  /\ token.signer = secret

\* the encoder of the launch hint codec: the payload signed with the given key
hintEncode(payload, key) == [alg |-> "HS256", kid |-> Absent, signer |-> key, payload |-> payload]

\* Lines 757-761: the payload jwt.verify returns, or Null when it throws
hintDecode(token, secret) == IF jwtVerifySecret(token, secret) THEN token.payload ELSE Null

\* jwt.decode(token, { complete: true }): null unless the string is a JWT
jwtDecode(token) ==
  IF token = Missing \/ token = Malformed THEN Null
  ELSE [header |-> [alg |-> token.alg, kid |-> token.kid], payload |-> token.payload]

\* jwt.verify(token, key, { algorithms }) with a key that is present:
\* the error message, or Continue when the signature verifies
jwtVerifyKey(token, key, algorithms) ==
  IF token.alg \notin algorithms THEN "invalid algorithm"
  ELSE IF token.alg = "none" THEN "jwt signature is required"
  ELSE IF token.signer # key THEN "invalid signature"
  ELSE Continue

----------------------------------------------------------------------------
(* verifyToken: key resolution by the Tool's authentication method *)

NetDown == [down |-> TRUE]

NoKeys == [nokeys |-> TRUE]

\* the outcomes of got.get(keysEndpoint).json()
NetResponses == {NetDown, NoKeys, [keys |-> <<[kid |-> "kid2", key |-> "k2"]>>]}

keysetFind(keyset, kid) ==
  IF \E i \in 1 .. Len(keyset) : keyset[i].kid = kid
  THEN keyset[CHOOSE i \in 1 .. Len(keyset) :
                 /\ keyset[i].kid = kid
                 /\ \A j \in 1 .. (i - 1) : keyset[j].kid # kid]
  ELSE Null

\* verifyToken fetching the keyset before it looks at the key id
verifyToken_FetchFirst(token, tool, alg, kid, net) ==
  LET authConfig == tool.authConfig IN
  CASE authConfig.method = "JWK_SET" ->
         IF net = NetDown THEN "RequestError"
         ELSE IF net = NoKeys THEN "KEYSET_NOT_FOUND"
         ELSE IF kid = Absent THEN "MISSING_KID_PARAMETER"
         ELSE LET jwk == keysetFind(net.keys, kid) IN
              IF jwk = Null THEN "KEY_NOT_FOUND"
              ELSE jwtVerifyKey(token, jwk.key, {alg})
    [] authConfig.method = "JWK_KEY" ->
         IF authConfig.key = Absent THEN "KEY_NOT_FOUND"
         ELSE jwtVerifyKey(token, authConfig.key, {alg})
    [] authConfig.method = "RSA_KEY" ->
         IF authConfig.key = Absent THEN "KEY_NOT_FOUND"
         ELSE jwtVerifyKey(token, authConfig.key, {alg})
    [] OTHER -> "AUTHCONFIG_NOT_FOUND"

\* the error message thrown, or Continue when the token is verified
verifyToken(token, tool, alg, kid, net) ==
  LET authConfig == tool.authConfig IN
  CASE authConfig.method = "JWK_SET" ->
         IF kid = Absent THEN "MISSING_KID_PARAMETER"
         ELSE IF net = NetDown THEN "RequestError"
         ELSE IF net = NoKeys THEN "KEYSET_NOT_FOUND"
         ELSE LET jwk == keysetFind(net.keys, kid) IN
              IF jwk = Null THEN "KEY_NOT_FOUND"
              ELSE jwtVerifyKey(token, jwk.key, {alg})
    [] authConfig.method = "JWK_KEY" ->
         IF authConfig.key = Absent THEN "KEY_NOT_FOUND"
         ELSE jwtVerifyKey(token, authConfig.key, {alg})
    [] authConfig.method = "RSA_KEY" ->
         IF authConfig.key = Absent THEN "KEY_NOT_FOUND"
         ELSE jwtVerifyKey(token, authConfig.key, {alg})
    [] OTHER -> "AUTHCONFIG_NOT_FOUND"

----------------------------------------------------------------------------
(* Auth.validateLoginRequest *)

NoAction == [none |-> TRUE]

Ok(v) == [err |-> "", val |-> v, detail |-> <<>>]

Fail(e) == [err |-> e, val |-> NoAction, detail |-> <<>>]

\* an Error whose message ends with the offending scope value
FailWith(e, d) == [err |-> e, val |-> NoAction, detail |-> d]

\* loginNonceLookup without the lookup of the nonce in the database
loginNonceLookup_NoGet(obj, encryptionkey, db) ==
  IF obj.lti_message_hint = Missing THEN "MISSING_LTI_MESSAGE_HINT_CLAIM"
  ELSE IF ~jwtVerifySecret(obj.lti_message_hint, encryptionkey) THEN "INVALID_MESSAGE_HINT_CLAIM"
  ELSE IF obj.nonce = NoNonce THEN "MISSING_NONCE_CLAIM"
  ELSE Continue

\* Lines 755-765: the checks up to and including the lookup of the nonce.
\* The error thrown, or Continue when execution reaches the insert.
loginNonceLookup(obj, encryptionkey, db) ==
  IF obj.lti_message_hint = Missing THEN "MISSING_LTI_MESSAGE_HINT_CLAIM"
  ELSE IF ~jwtVerifySecret(obj.lti_message_hint, encryptionkey) THEN "INVALID_MESSAGE_HINT_CLAIM"
  ELSE IF obj.nonce = NoNonce THEN "MISSING_NONCE_CLAIM"
  ELSE IF DatabaseGet(db, obj.nonce) THEN "NONCE_ALREADY_RECEIVED"
  ELSE Continue

\* loginClaimChecks with the prompt check moved before the response_mode check
loginClaimChecks_PromptFirst(obj, reg) ==
  IF obj.scope # "openid" THEN "INVALID_SCOPE_CLAIM"
  ELSE IF obj.response_type # "id_token" THEN "INVALID_RESPONSE_TYPE_CLAIM"
  ELSE IF obj.prompt # "none" THEN "INVALID_PROMPT_CLAIM"
  ELSE IF obj.response_mode # "form_post" THEN "INVALID_RESPONSE_MODE_CLAIM"
  ELSE IF obj.client_id = Absent THEN "MISSING_CLIENT_ID_CLAIM"
  ELSE LET tool == getTool(reg, obj.client_id) IN
       IF tool = Null THEN "INVALID_CLIENT_ID_CLAIM"
       ELSE IF obj.lti_deployment_id = Absent THEN "MISSING_LTI_DEPLOYMENT_ID_CLAIM"
       ELSE IF tool.deploymentId # obj.lti_deployment_id THEN "INVALID_LTI_DEPLOYMENT_ID_CLAIM"
       ELSE IF obj.redirect_uri = Absent THEN "MISSING_REDIRECT_URI_CLAIM"
       ELSE IF ~includes(tool.redirectionURIs, obj.redirect_uri) THEN "INVALID_REDIRECT_URI_CLAIM"
       ELSE IF obj.login_hint = Absent THEN "MISSING_LOGIN_HINT_CLAIM"
       ELSE Continue

\* Lines 769-792: the checks that follow the insert of the nonce
loginClaimChecks(obj, reg) ==
  IF obj.scope # "openid" THEN "INVALID_SCOPE_CLAIM"
  ELSE IF obj.response_type # "id_token" THEN "INVALID_RESPONSE_TYPE_CLAIM"
  ELSE IF obj.response_mode # "form_post" THEN "INVALID_RESPONSE_MODE_CLAIM"
  ELSE IF obj.prompt # "none" THEN "INVALID_PROMPT_CLAIM"
  ELSE IF obj.client_id = Absent THEN "MISSING_CLIENT_ID_CLAIM"
  ELSE LET tool == getTool(reg, obj.client_id) IN
       IF tool = Null THEN "INVALID_CLIENT_ID_CLAIM"
       ELSE IF obj.lti_deployment_id = Absent THEN "MISSING_LTI_DEPLOYMENT_ID_CLAIM"
       ELSE IF tool.deploymentId # obj.lti_deployment_id THEN "INVALID_LTI_DEPLOYMENT_ID_CLAIM"
       ELSE IF obj.redirect_uri = Absent THEN "MISSING_REDIRECT_URI_CLAIM"
       ELSE IF ~includes(tool.redirectionURIs, obj.redirect_uri) THEN "INVALID_REDIRECT_URI_CLAIM"
       ELSE IF obj.login_hint = Absent THEN "MISSING_LOGIN_HINT_CLAIM"
       ELSE Continue

\* loginServiceAction generating a correlation state for every launch kind
loginServiceAction_AlwaysState(obj, messageHint, random) ==
  [service |-> "CORE",
   clientId |-> obj.client_id,
   deploymentId |-> obj.lti_deployment_id,
   params |-> [user |-> obj.login_hint,
               toolLink |-> messageHint.toolLink,
               resource |-> messageHint.resource,
               type |-> messageHint.type,
               redirectUri |-> obj.redirect_uri,
               state |-> obj.state],
   dlState |-> random]

\* Lines 794-809: the serviceAction returned; random is crypto.randomBytes(16)
loginServiceAction(obj, messageHint, random) ==
  [service |-> "CORE",
   clientId |-> obj.client_id,
   deploymentId |-> obj.lti_deployment_id,
   params |-> [user |-> obj.login_hint,
               toolLink |-> messageHint.toolLink,
               resource |-> messageHint.resource,
               type |-> messageHint.type,
               redirectUri |-> obj.redirect_uri,
               state |-> obj.state],
   dlState |-> IF messageHint.type = DEEPLINKING_LAUNCH THEN random ELSE Absent]

\* loginAfterLookup storing the nonce only once every check has passed
loginAfterLookup_InsertLast(obj, db, reg) ==
  LET err == loginClaimChecks(obj, reg) IN
  [db |-> IF err # Continue THEN db ELSE DatabaseInsert(db, obj.nonce),
   res |-> IF err # Continue THEN Fail(err)
           ELSE Ok(loginServiceAction(obj, obj.lti_message_hint.payload, obj.random))]

\* Lines 767-809: from the insert of the nonce to the end
loginAfterLookup(obj, db, reg) ==
  LET err == loginClaimChecks(obj, reg) IN
  [db |-> DatabaseInsert(db, obj.nonce),
   res |-> IF err # Continue THEN Fail(err)
           ELSE Ok(loginServiceAction(obj, obj.lti_message_hint.payload, obj.random))]

\* Lines 752-810, run without interruption
validateLoginRequest(obj, encryptionkey, db, reg) ==
  LET err == loginNonceLookup(obj, encryptionkey, db) IN
  IF err # Continue THEN [db |-> db, res |-> Fail(err)]
  ELSE loginAfterLookup(obj, db, reg)

----------------------------------------------------------------------------
(* Auth.validateDeepLinkingRequest *)

\* dlNonceLookup without the lookup of the nonce in the database
dlNonceLookup_NoGet(obj, db, reg) ==
  IF obj.JWT = Missing THEN "MISSING_JWT_PARAMETER"
  ELSE LET decoded == jwtDecode(obj.JWT) IN
       IF decoded = Null THEN "TypeError"
       ELSE LET tool == getTool(reg, decoded.payload.iss) IN
            IF tool = Null THEN "TOOL_NOT_FOUND"
            ELSE verifyToken(obj.JWT, tool, decoded.header.alg, decoded.header.kid, obj.net)

\* dlNonceLookup refusing a response that carries no nonce
dlNonceLookup_NonceRequired(obj, db, reg) ==
  IF dlNonceLookup_NoGet(obj, db, reg) # Continue THEN dlNonceLookup_NoGet(obj, db, reg)
  ELSE IF obj.JWT.payload.nonce = NoNonce \/ DatabaseGet(db, obj.JWT.payload.nonce)
       THEN "NONCE_ALREADY_RECEIVED"
  ELSE Continue

\* Lines 820-829: the checks up to and including the lookup of the nonce;
\* Continue when execution goes on at line 831 or, without a nonce, at 834
dlNonceLookup(obj, db, reg) ==
  IF obj.JWT = Missing THEN "MISSING_JWT_PARAMETER"
  ELSE LET decoded == jwtDecode(obj.JWT) IN
       IF decoded = Null THEN "TypeError"
       ELSE LET tool == getTool(reg, decoded.payload.iss) IN
            IF tool = Null THEN "TOOL_NOT_FOUND"
            ELSE LET verr == verifyToken(obj.JWT, tool, decoded.header.alg, decoded.header.kid, obj.net) IN
                 IF verr # Continue THEN verr
                 ELSE IF obj.JWT.payload.nonce # NoNonce /\ DatabaseGet(db, obj.JWT.payload.nonce)
                      THEN "NONCE_ALREADY_RECEIVED"
                 ELSE Continue

\* Lines 834-841: the claim checks on the verified payload
dlClaimChecks(verified, tool) ==
  IF verified.aud # consumer.url THEN "INVALID_AUD_CLAIM"
  ELSE IF verified.deployment_id # tool.deploymentId THEN "INVALID_DEPLOYMENT_ID_CLAIM"
  ELSE IF verified.message_type # DEEPLINKING_RESPONSE THEN "INVALID_MESSAGE_TYPE_CLAIM"
  ELSE IF verified.version # "1.3.0" THEN "INVALID_VERSION_CLAIM"
  ELSE Continue

\* Lines 843-858
dlServiceAction(verified, query) ==
  [service |-> "DEEPLINKING",
   clientId |-> verified.iss,
   params |-> [contextId |-> query.contextId, state |-> query.dlState]]

\* dlAfterLookup storing the nonce only once every claim check has passed
dlAfterLookup_InsertLast(obj, query, db, reg) ==
  LET verified == obj.JWT.payload
      tool == getTool(reg, verified.iss)
      err == dlClaimChecks(verified, tool)
  IN [db |-> IF verified.nonce # NoNonce /\ err = Continue
             THEN DatabaseInsert(db, verified.nonce) ELSE db,
      res |-> IF err # Continue THEN Fail(err) ELSE Ok(dlServiceAction(verified, query))]

\* Lines 831-858: from the insert of the nonce (if any) to the end
dlAfterLookup(obj, query, db, reg) ==
  LET verified == obj.JWT.payload
      tool == getTool(reg, verified.iss)
      err == dlClaimChecks(verified, tool)
  IN [db |-> IF verified.nonce # NoNonce THEN DatabaseInsert(db, verified.nonce) ELSE db,
      res |-> IF err # Continue THEN Fail(err) ELSE Ok(dlServiceAction(verified, query))]

\* Lines 818-859, run without interruption
validateDeepLinkingRequest(obj, query, db, reg) ==
  LET err == dlNonceLookup(obj, db, reg) IN
  IF err # Continue THEN [db |-> db, res |-> Fail(err)]
  ELSE dlAfterLookup(obj, query, db, reg)

----------------------------------------------------------------------------
(* Scopes.  A scope string is a sequence of characters; "m", "l" and "x"   *)
(* each stand for the characters of one scope value (the memberships scope, *)
(* the line item scope and a value that is no scope) and " " is a space.    *)

\* the validScopes helper: scope code -> scope value, in key order
ScopeKeys == <<"MEMBERSHIPS", "LINEITEM">>

validScopes == [MEMBERSHIPS |-> <<"m">>, LINEITEM |-> <<"l">>]

Undefined == "undefined"

\* Lines 739-741: the first key of validScopes whose value is the given one
getScopeCode(value) ==
  IF \E i \in DOMAIN ScopeKeys : validScopes[ScopeKeys[i]] = value
  THEN ScopeKeys[CHOOSE i \in DOMAIN ScopeKeys :
                   /\ validScopes[ScopeKeys[i]] = value
                   /\ \A j \in 1 .. (i - 1) : validScopes[ScopeKeys[j]] # value]
  ELSE Undefined

\* String.prototype.split(' ')
RECURSIVE split(_)
split(str) ==
  IF \A i \in DOMAIN str : str[i] # " " THEN <<str>>
  ELSE LET i == CHOOSE k \in DOMAIN str : str[k] = " " /\ \A j \in 1 .. (k - 1) : str[j] # " "
       IN <<SubSeq(str, 1, i - 1)>> \o split(SubSeq(str, i + 1, Len(str)))

\* firstInvalidScope accepting every known scope, authorized for the Tool or not
firstInvalidScope_KnownOnly(scopes, toolScopes) ==
  LET bad == {i \in DOMAIN scopes : getScopeCode(scopes[i]) = Undefined}
  IN IF bad = {} THEN 0 ELSE CHOOSE i \in bad : \A j \in bad : i <= j

\* Lines 1002-1005: the index of the scope the loop throws for, 0 if it throws for none
firstInvalidScope(scopes, toolScopes) ==
  LET bad == {i \in DOMAIN scopes :
                \/ getScopeCode(scopes[i]) = Undefined
                \/ ~includes(toolScopes, getScopeCode(scopes[i]))}
  IN IF bad = {} THEN 0 ELSE CHOOSE i \in bad : \A j \in bad : i <= j

----------------------------------------------------------------------------
(* Auth.generateAccessToken *)

JWT_BEARER == "urn:ietf:params:oauth:client-assertion-type:jwt-bearer"

\* the lifetime of an access token in seconds (expiresIn: 3600)
TokenLifetime == 3600

\* url.format of the consumer's origin with the given pathname
urlFormat(c, pathname) == c.url \o pathname

\* Lines 1017-1018: TRUE iff one of the two statements throws INVALID_AUD_CLAIM
audRejected(aud, accesstokenURL) ==
  IF "arr" \in DOMAIN aud /\ ~includes(aud.arr, accesstokenURL) THEN TRUE
  ELSE aud # [str |-> accesstokenURL]

\* accessTokenResponse binding every token to the client id of Tool t1
accessTokenResponse_FixedClient(decoded, body, encryptionkey, clock) ==
  [access_token |-> [alg |-> "HS256", kid |-> Absent, signer |-> encryptionkey,
                     payload |-> [clientId |-> "t1", scopes |-> body.scope,
                                  iat |-> clock, exp |-> clock + TokenLifetime]],
   token_type |-> "bearer",
   expires_in |-> TokenLifetime,
   scope |-> body.scope]

\* Lines 1022-1032: jwt.sign(accessTokenPayload, encryptionkey, { expiresIn: 3600 })
accessTokenResponse(decoded, body, encryptionkey, clock) ==
  [access_token |-> [alg |-> "HS256", kid |-> Absent, signer |-> encryptionkey,
                     payload |-> [clientId |-> decoded.payload.sub, scopes |-> body.scope,
                                  iat |-> clock, exp |-> clock + TokenLifetime]],
   token_type |-> "bearer",
   expires_in |-> TokenLifetime,
   scope |-> body.scope]

\* Lines 988-1033
generateAccessToken(body, cons, encryptionkey, reg, clock) ==
  IF body.grant_type # "client_credentials" THEN Fail("INVALID_GRANT_TYPE_CLAIM")
  ELSE IF body.client_assertion_type # JWT_BEARER THEN Fail("INVALID_CLIENT_ASSERTION_TYPE_CLAIM")
  ELSE LET decoded == jwtDecode(body.client_assertion) IN
       IF decoded = Null THEN Fail("TypeError")
       ELSE LET tool == getTool(reg, decoded.payload.sub) IN
            IF tool = Null THEN Fail("INVALID_CLIENT_ID")
            ELSE IF body.scope = <<>> THEN Fail("MISSING_SCOPE_CLAIM")
            ELSE LET scopes == split(body.scope)
                     bad == firstInvalidScope(scopes, tool.scopes)
                 IN IF bad # 0 THEN FailWith("INVALID_SCOPE_CLAIM", scopes[bad])
                    ELSE IF body.client_assertion = Missing THEN Fail("MISSING_CLIENT_ASSERTION_CLAIM")
                    ELSE IF audRejected(decoded.payload.aud, urlFormat(cons, cons.accesstokenRoute))
                         THEN Fail("INVALID_AUD_CLAIM")
                    ELSE LET verr == verifyToken(body.client_assertion, tool, decoded.header.alg,
                                                 decoded.header.kid, body.net)
                         IN IF verr # Continue THEN Fail(verr)
                            ELSE Ok(accessTokenResponse(decoded, body, encryptionkey, clock))

----------------------------------------------------------------------------
(* Auth.validateAccessToken *)

\* jwtVerifyAt accepting a token at the very second of its expiry
jwtVerifyAt_AtExpiry(token, secret, clock) ==
  /\ token # Missing
  /\ token # Malformed
  /\ token.signer = secret
  /\ ("exp" \in DOMAIN token.payload) => (clock <= token.payload.exp)

\* Line 1044: jwt.verify(token, encryptionkey) checks the signature and the exp claim
jwtVerifyAt(token, secret, clock) ==
  /\ token # Missing
  /\ token # Malformed
  /\ token.signer = secret
  /\ ("exp" \in DOMAIN token.payload) => (clock < token.payload.exp)

\* validateAccessToken without the check of the token's own scopes
validateAccessToken_ToolOnly(token, scope, encryptionkey, reg, clock) ==
  IF ~jwtVerifyAt(token, encryptionkey, clock) THEN Fail("INVALID_ACCESS_TOKEN")
  ELSE LET verified == token.payload IN
       IF "scopes" \notin DOMAIN verified THEN Fail("TypeError")
       ELSE LET tool == getTool(reg, verified.clientId) IN
            IF tool = Null THEN Fail("TOOL_NOT_FOUND")
            ELSE IF getScopeCode(scope) = Undefined \/ ~includes(tool.scopes, getScopeCode(scope))
                 THEN FailWith("INVALID_SCOPE_CLAIM", scope)
            ELSE Ok([clientId |-> verified.clientId, scopes |-> verified.scopes,
                     privacy |-> tool.privacy])

\* Lines 1041-1060
validateAccessToken(token, scope, encryptionkey, reg, clock) ==
  IF ~jwtVerifyAt(token, encryptionkey, clock) THEN Fail("INVALID_ACCESS_TOKEN")
  ELSE LET verified == token.payload IN
       IF "scopes" \notin DOMAIN verified THEN Fail("TypeError")
       ELSE IF ~includes(split(verified.scopes), scope) THEN FailWith("INVALID_SCOPE_CLAIM", scope)
       ELSE LET tool == getTool(reg, verified.clientId) IN
            IF tool = Null THEN Fail("TOOL_NOT_FOUND")
            ELSE IF getScopeCode(scope) = Undefined \/ ~includes(tool.scopes, getScopeCode(scope))
                 THEN FailWith("INVALID_SCOPE_CLAIM", scope)
            ELSE Ok([clientId |-> verified.clientId, scopes |-> verified.scopes,
                     privacy |-> tool.privacy])

----------------------------------------------------------------------------
(* Auth.buildIdToken.  The claims of the ID Token are a record whose fields  *)
(* are the claims present; the namespaced claim names are shortened to      *)
(* their last segment.                                                      *)

\* obj.name in JavaScript: undefined when the object has no such property
prop(obj, name) == IF name \in DOMAIN obj THEN obj[name] ELSE Undefined

\* an object without properties
EmptyObject == [x \in {} |-> Absent]

\* querystring.stringify of one value: undefined becomes the empty string
queryValue(v) == IF v = Undefined THEN Absent ELSE v

\* Lines 893-904: url.format with a query; the URL is kept as its origin and
\* pathname and the parameters of its query string
urlFormatQuery(c, pathname, query) ==
  [href |-> c.url \o pathname,
   query |-> [k \in DOMAIN query |-> queryValue(query[k])]]

\* Lines 914, 928
emailClaims(privacy, user) ==
  IF privacy = privacyLevels.COMPLETE \/ privacy = privacyLevels.EMAIL
  THEN [email |-> user.email] ELSE EmptyObject

\* Lines 915-919, 929-933
nameClaims(privacy, user) ==
  IF privacy = privacyLevels.COMPLETE \/ privacy = privacyLevels.NAME
  THEN [given_name |-> user.given_name, family_name |-> user.family_name, name |-> user.name]
  ELSE EmptyObject

\* effectivePrivacy without the INHERIT case
effectivePrivacy_LinkOnly(tool, toolLink) == toolLink.privacy

\* Line 927
effectivePrivacy(tool, toolLink) ==
  IF toolLink.privacy = privacyLevels.INHERIT THEN tool.privacy ELSE toolLink.privacy

\* spread keeping the value of the first object for a key both define
spread_FirstWins(first, second) == first @@ second

\* Line 924: { ...tool.customParameters, ...toolLink.customParameters }
spread(first, second) == second @@ first

\* Lines 875-891
baseClaims(serviceAction, _idtoken, cons, random) ==
  [iss |-> cons.url,
   aud |-> serviceAction.clientId,
   deployment_id |-> serviceAction.deploymentId,
   sub |-> serviceAction.params.user,
   roles |-> _idtoken.user.roles,
   context |-> _idtoken.launch.context,
   version |-> "1.3.0",
   nonce |-> random,
   message_type |-> serviceAction.params.type]

\* Lines 892-919: the claims added for a deep linking launch
deepLinkingClaims(serviceAction, _idtoken, cons, tool) ==
  [custom |-> tool.customParameters,
   deep_linking_settings |->
     [deep_link_return_url |->
        urlFormatQuery(cons, cons.deepLinkingRequestRoute,
                       [contextId |-> _idtoken.launch.context.id,
                        dlState |-> prop(serviceAction.params, "dlState")]),
      accept_types |-> <<"ltiResourceLink">>,
      accept_presentation_document_targets |-> <<"iframe", "window">>,
      accept_multiple |-> FALSE,
      auto_create |-> FALSE,
      title |-> tool.name]]
    @@ emailClaims(tool.privacy, _idtoken.user)
    @@ nameClaims(tool.privacy, _idtoken.user)

\* Lines 923-933: the claims added for a launch of a ToolLink
resourceClaims(_idtoken, tool, toolLink) ==
  [custom |-> spread(tool.customParameters, toolLink.customParameters),
   target_link_uri |-> toolLink.url,
   resource_link |-> _idtoken.launch.resource]
    @@ emailClaims(effectivePrivacy(tool, toolLink), _idtoken.user)
    @@ nameClaims(effectivePrivacy(tool, toolLink), _idtoken.user)

\* Lines 935-948
membershipsClaims(_idtoken, cons, tool) ==
  IF includes(tool.scopes, "MEMBERSHIPS")
  THEN [namesroleservice |->
          [context_memberships_url |->
             urlFormat(cons, cons.membershipsRoute \o "/" \o _idtoken.launch.context.id),
           service_versions |-> <<"2.0">>]]
  ELSE EmptyObject

\* Line 951: jwt.sign(idtoken, privateKey, { algorithm: 'RS256', expiresIn: '24h', keyid })
signIdToken(claims, tool) ==
  [alg |-> "RS256", kid |-> tool.kid, signer |-> tool.privateKey, payload |-> claims]

\* buildIdToken looking at the identity data before the launch intent
buildIdToken_DataFirst(serviceAction, _idtoken, cons, reg, lnk, random) ==
  IF _idtoken = Null THEN Fail("MISSING_IDTOKEN_PARAMETER")
  ELSE IF serviceAction = Null THEN Fail("MISSING_LOGIN_REQUEST_PARAMETER")
  ELSE LET tool == getTool(reg, serviceAction.clientId) IN
       IF tool = Null THEN Fail("INVALID_CLIENT_ID_CLAIM")
       ELSE LET base == baseClaims(serviceAction, _idtoken, cons, random) IN
            IF serviceAction.params.type = DEEPLINKING_LAUNCH
            THEN Ok(signIdToken(base @@ deepLinkingClaims(serviceAction, _idtoken, cons, tool)
                                     @@ membershipsClaims(_idtoken, cons, tool), tool))
            ELSE LET toolLink == getToolLink(lnk, serviceAction.params.toolLink) IN
                 IF toolLink = Null THEN Fail("INVALID_TOOL_LINK_ID")
                 ELSE Ok(signIdToken(base @@ resourceClaims(_idtoken, tool, toolLink)
                                          @@ membershipsClaims(_idtoken, cons, tool), tool))

\* Lines 867-953; random is the nonce drawn at line 888
buildIdToken(serviceAction, _idtoken, cons, reg, lnk, random) ==
  IF serviceAction = Null THEN Fail("MISSING_LOGIN_REQUEST_PARAMETER")
  ELSE IF _idtoken = Null THEN Fail("MISSING_IDTOKEN_PARAMETER")
  ELSE LET tool == getTool(reg, serviceAction.clientId) IN
       IF tool = Null THEN Fail("INVALID_CLIENT_ID_CLAIM")
       ELSE LET base == baseClaims(serviceAction, _idtoken, cons, random) IN
            IF serviceAction.params.type = DEEPLINKING_LAUNCH
            THEN Ok(signIdToken(base @@ deepLinkingClaims(serviceAction, _idtoken, cons, tool)
                                     @@ membershipsClaims(_idtoken, cons, tool), tool))
            ELSE LET toolLink == getToolLink(lnk, serviceAction.params.toolLink) IN
                 IF toolLink = Null THEN Fail("INVALID_TOOL_LINK_ID")
                 ELSE Ok(signIdToken(base @@ resourceClaims(_idtoken, tool, toolLink)
                                          @@ membershipsClaims(_idtoken, cons, tool), tool))

----------------------------------------------------------------------------
(* State *)

VARIABLES
  nonceDB,     \* the nonce collection: number of records per nonce value
  tools,       \* the Tool registry
  accepted,    \* history: per nonce, how many requests passed the nonce step
  stage,       \* "idle", "pending" (request received) or "done" (answered)
  route,       \* the route of the request being served
  req,         \* the request being served
  res,         \* the outcome of its validation
  called,      \* the callback or response the route handler ended with
  procs,       \* the concurrently running handlers, one per worker
  remembered,  \* history: one deep linking response submitted earlier, and its outcome
  now,         \* the clock, in seconds
  held,        \* the access token the Tool holds: the one issued last that it kept
  links,       \* the ToolLink registry
  idtoken,     \* the outcome of buildIdToken for the launch being served, with its arguments
  issued,      \* history: the privacy level of the holder's Tool when the held token was issued
  locals,      \* res.locals of the request being served
  instance,    \* the Consumer: its configuration and setup flag, the handlers in its
               \* callback slots, whether it is deployed, and (history) the slots whose
               \* registered handler was replaced after deploy
  sent         \* the responses sent while the request being served was handled, in order

vars == <<nonceDB, tools, accepted, stage, route, req, res, called, procs, remembered, now, held, links, idtoken, issued, locals,
          instance, sent>>

serverVars == <<stage, route, req, res, called>>

NoReq == [none |-> TRUE]

EmptyDB == [n \in Nonce |-> 0]

Procs == 1 .. NumProcs

IdleProc == [pc |-> "idle", route |-> "", req |-> NoReq, res |-> Fail("")]

\* res.locals of a request no handler has written to yet
EmptyLocals == [serviceAction |-> NoAction, err |-> Null]

\* Lines 195-204, 216-224, 236-244: res.locals.err
LocalsErr(status, message) == [serviceAction |-> NoAction, err |-> [status |-> status, message |-> message]]

\* Lines 58-72: the handlers a new Consumer holds in the slots of its callbacks
DefaultCallbacks ==
  [coreLaunchCallback |-> "default", deepLinkingLaunchCallback |-> "default",
   deepLinkingRequestCallback |-> "default", membershipsRequestCallback |-> "default"]

\* res.status(status).send(...): a response, with the handler that sent it
Answer(status, message, by) == [status |-> status, message |-> message, by |-> by]

\* Lines 58-72: what the handler in a slot answers when it is called.  The
\* default handler answers 500 with the message of its slot; a registered
\* handler answers for itself.
callbackAnswer(cbs, slot) ==
  IF cbs[slot] = "default"
  THEN Answer(500,
              CASE slot = "coreLaunchCallback" -> "MISSING_CORE_LAUNCH_CALLBACK"
                [] slot = "deepLinkingLaunchCallback" -> "MISSING_DEEPLINKING_LAUNCH_CALLBACK"
                [] slot = "deepLinkingRequestCallback" -> "MISSING_DEEPLINKING_REQUEST_CALLBACK"
                [] slot = "membershipsRequestCallback" -> "MISSING_MEMBERSHIPS_REQUEST_CALLBACK",
              "default")
  ELSE Answer(200, "", cbs[slot])

\* onCallback keeping the handler of a slot that was registered before
onCallback_Once(cbs, slot, cb) ==
  IF cb = Absent \/ cbs[slot] # "default" THEN cbs ELSE [cbs EXCEPT ![slot] = cb]

\* Lines 444-485: onCoreLaunch, onDeepLinkingLaunch, onDeepLinkingRequest and
\* onMembershipsRequest; a falsy callback throws MISSING_CALLBACK
onCallback(cbs, slot, cb) == IF cb = Absent THEN cbs ELSE [cbs EXCEPT ![slot] = cb]

----------------------------------------------------------------------------
(* Consumer.setup and Consumer.deploy.  The options of setup are a record   *)
(* of all the options the code reads, an option that was not given being    *)
(* Absent; Null stands for no options, no database and no ssl object.       *)

\* a truthy value that is no string, given where a string is expected
NotAString == "not a string"

\* Lines 36-72: the fields of a Consumer no method has been called on, with
\* (history) the slots whose registered handler was replaced after deploy
Constructed ==
  [setup |-> FALSE, loginRoute |-> "/login", accesstokenRoute |-> "/accesstoken",
   keysetRoute |-> "/keys", deepLinkingRequestRoute |-> "/deeplinking",
   membershipsRoute |-> "/memberships", legacy |-> FALSE,
   consumerUrl |-> Undefined, consumer |-> Null, ENCRYPTIONKEY |-> Undefined,
   callbacks |-> DefaultCallbacks, deployed |-> FALSE, late |-> {}]

\* Lines 120-320: setup from its second statement on.  url.parse throws a
\* TypeError for a value that is no string, after the routes and the consumer
\* URL have been assigned.
setupUnguarded(inst, encryptionkey, database, options) ==
  IF encryptionkey = Absent THEN [inst |-> inst, err |-> "MISSING_ENCRYPTION_KEY"]
  ELSE IF database = Null THEN [inst |-> inst, err |-> "MISSING_DATABASE_CONFIGURATION"]
  ELSE IF options = Null \/ options.consumerUrl = Absent
       THEN [inst |-> inst, err |-> "MISSING_CONSUMER_URL_CONFIGURATION"]
  ELSE IF options.https /\ (options.ssl = Null \/ options.ssl.key = Absent \/ options.ssl.cert = Absent)
       THEN [inst |-> inst, err |-> "MISSING_SSL_KEY_CERTIFICATE"]
  ELSE LET routed ==
             [inst EXCEPT
                !.loginRoute = IF options.loginRoute # Absent THEN options.loginRoute ELSE @,
                !.keysetRoute = IF options.keysetRoute # Absent THEN options.keysetRoute ELSE @,
                !.accesstokenRoute = IF options.accesstokenRoute # Absent
                                     THEN options.accesstokenRoute ELSE @,
                !.deepLinkingRequestRoute = IF options.deepLinkingRequestRoute # Absent
                                            THEN options.deepLinkingRequestRoute ELSE @,
                !.membershipsRoute = IF options.membershipsRoute # Absent
                                     THEN options.membershipsRoute ELSE @,
                !.legacy = IF options.legacy THEN TRUE ELSE @,
                !.consumerUrl = options.consumerUrl]
       IN IF options.consumerUrl = NotAString THEN [inst |-> routed, err |-> "TypeError"]
          ELSE [inst |-> [routed EXCEPT
                            !.consumer = [url |-> routed.consumerUrl,
                                          accesstokenRoute |-> routed.accesstokenRoute,
                                          deepLinkingRequestRoute |-> routed.deepLinkingRequestRoute,
                                          membershipsRoute |-> routed.membershipsRoute],
                            !.ENCRYPTIONKEY = encryptionkey,
                            !.setup = TRUE],
                err |-> ""]

\* setup without the check of the setup flag
setup_NoFlagCheck(inst, encryptionkey, database, options) ==
  setupUnguarded(inst, encryptionkey, database, options)

\* Lines 117-321
setup(inst, encryptionkey, database, options) ==
  IF inst.setup THEN [inst |-> inst, err |-> "PROVIDER_ALREADY_SETUP"]
  ELSE setupUnguarded(inst, encryptionkey, database, options)

\* the options that give the consumer URL and nothing else
UrlOnly(consumerUrl) ==
  [consumerUrl |-> consumerUrl, loginRoute |-> Absent, keysetRoute |-> Absent,
   accesstokenRoute |-> Absent, deepLinkingRequestRoute |-> Absent,
   membershipsRoute |-> Absent, legacy |-> FALSE, https |-> FALSE, ssl |-> Null]

\* Lines 331-370: deploy connects the database and starts listening
deploy(inst) ==
  IF ~inst.setup THEN [inst |-> inst, err |-> "CONSUMER_NOT_SETUP"]
  ELSE [inst |-> [inst EXCEPT !.deployed = TRUE], err |-> ""]

----------------------------------------------------------------------------
(* The access token check of the service routes.  An Authorization header   *)
(* is a sequence of characters, as a scope string is: "Bearer", "bearer",   *)
(* "BEARER" and "Basic" each stand for the characters of that word, "h" for *)
(* the characters of the token the caller holds and " " is a space.         *)

\* the token a part of the header spells: the token the caller holds, if it
\* holds one, and otherwise a string that is no JWT
tokenOf(part, h) == IF part = <<"h">> /\ h # NoReq THEN h ELSE Malformed

\* Lines 262-267: the Error the helper throws for the header itself, or
\* Continue when it goes on to Auth.validateAccessToken
headerError(authorization) ==
  IF authorization = <<>> THEN "MISSING_AUTHORIZATION_HEADER"
  ELSE LET parts == split(authorization) IN
       IF Len(parts) = 2 /\ (parts[1] = <<"Bearer">> \/ parts[1] = <<"bearer">>)
       THEN Continue
       ELSE "INVALID_AUTHORIZATION_HEADER"

\* Lines 261-280: the outcome of the helper validateAccessToken of the service
\* routes: the Error thrown for the header or by Auth.validateAccessToken, or
\* the validated token
routeValidateAccessToken(authorization, scope, encryptionkey, reg, clock, h) ==
  IF authorization = <<>> THEN Fail("MISSING_AUTHORIZATION_HEADER")
  ELSE LET parts == split(authorization) IN
       IF Len(parts) = 2 /\ (parts[1] = <<"Bearer">> \/ parts[1] = <<"bearer">>)
       THEN validateAccessToken(tokenOf(parts[2], h), scope, encryptionkey, reg, clock)
       ELSE Fail("INVALID_AUTHORIZATION_HEADER")

\* Lines 292-303: res.locals.serviceAction of the memberships route; accessToken
\* is what the helper returned
membershipsServiceAction(accessToken, context) ==
  [service |-> "MEMBERSHIPS",
   endpoint |-> urlFormat(consumer, consumer.membershipsRoute \o "/" \o context),
   clientId |-> prop(accessToken, "clientId"),
   privacy |-> prop(accessToken, "privacy"),
   params |-> [contextId |-> context]]

----------------------------------------------------------------------------
(* Requests *)

\* the payload of the launch hint of a launch of the given kind
HintPayload(type) ==
  [type |-> type,
   toolLink |-> IF type = RESOURCE_LAUNCH THEN "link1" ELSE Absent,
   resource |-> IF type = RESOURCE_LAUNCH THEN "res1" ELSE Absent]

Hint(key, type) == hintEncode(HintPayload(type), key)

Hints == {Missing, Hint("otherkey", RESOURCE_LAUNCH),
          Hint(ENCRYPTIONKEY, RESOURCE_LAUNCH), Hint(ENCRYPTIONKEY, DEEPLINKING_LAUNCH)}

\* req.query of the login route (random: the bytes crypto.randomBytes returns)
LoginRequests ==
  [lti_message_hint : Hints,
   nonce : {NoNonce} \cup Nonce,
   scope : {"openid", "email"},
   response_type : {"id_token", "code"},
   response_mode : {"form_post", "query"},
   prompt : {"none", "login"},
   client_id : {Absent, "t1", "t2", "tx"},
   lti_deployment_id : {Absent, "d1", "d2"},
   redirect_uri : {Absent, "u1", "u2"},
   login_hint : {Absent, "user1"},
   state : {Absent},
   random : {"r1"}]

DLTokens ==
  [alg : {"RS256", "none"},
   kid : {Absent, "kid2"},
   signer : {"k1", "k2"},
   payload : [iss : {"t1", "t2", "tx"},
              nonce : {NoNonce} \cup Nonce,
              aud : {consumer.url, "https://other"},
              deployment_id : {"d1", "d2"},
              message_type : {DEEPLINKING_RESPONSE, "LtiResourceLinkRequest"},
              version : {"1.3.0", "1.2.0"}]]

\* req.body of the deep linking route (net: what the Tool's keyset endpoint answers)
DLRequests == [JWT : {Missing, Malformed} \cup DLTokens, net : NetResponses]

DLQuery == [contextId |-> "c1", dlState |-> "r1"]

\* login requests that differ in the launch hint, the nonce and the scope only
FewLoginRequests ==
  {r \in LoginRequests :
     /\ r.lti_message_hint \in {Missing, Hint(ENCRYPTIONKEY, RESOURCE_LAUNCH)}
     /\ r.response_type = "id_token" /\ r.response_mode = "form_post" /\ r.prompt = "none"
     /\ r.client_id = "t1" /\ r.lti_deployment_id = "d1" /\ r.redirect_uri = "u1"
     /\ r.login_hint = "user1"}

\* deep linking responses with an RS256 header and a key id, sent while the keyset
\* endpoint answers or not
FewDLRequests ==
  {r \in DLRequests :
     /\ r.JWT \in DLTokens
     /\ r.JWT.alg = "RS256" /\ r.JWT.kid = "kid2"
     /\ r.JWT.payload.iss \in {"t1", "t2"}
     /\ r.JWT.payload.deployment_id = "d1"
     /\ r.JWT.payload.version = "1.3.0"
     /\ r.net # NoKeys}

\* the scope parameter of an access token request; the empty string is falsy
ScopeChars == {"m", "l", "x", " "}

ScopeStrings == UNION {[1 .. n -> ScopeChars] : n \in 0 .. MaxScopeLen}

accesstokenURL == urlFormat(consumer, consumer.accesstokenRoute)

\* the aud claim of a client assertion: a string or an array of strings
AudValues == {[str |-> accesstokenURL], [str |-> "https://other"],
              [arr |-> <<accesstokenURL>>], [arr |-> <<"https://other">>]}

Assertions ==
  [alg : {"RS256", "none"},
   kid : {Absent, "kid2"},
   signer : {"k1", "k2"},
   payload : [sub : {"t1", "t2", "tx"}, aud : AudValues]]

\* req.body of the access token route (net: what the Tool's keyset endpoint answers)
GrantRequests ==
  [grant_type : {"client_credentials", "password"},
   client_assertion_type : {JWT_BEARER, "jwt"},
   client_assertion : {Missing, Malformed} \cup Assertions,
   scope : ScopeStrings,
   net : NetResponses]

\* access token requests that differ in the Tool asking and in the scope only
FewGrantRequests ==
  {r \in GrantRequests :
     /\ r.grant_type = "client_credentials"
     /\ r.client_assertion_type = JWT_BEARER
     /\ r.client_assertion \in Assertions
     /\ r.client_assertion.alg = "RS256"
     /\ r.client_assertion.kid = "kid2"
     /\ r.client_assertion.payload.aud = [str |-> accesstokenURL]
     /\ \/ r.client_assertion.payload.sub = "t1" /\ r.client_assertion.signer = "k1"
        \/ r.client_assertion.payload.sub = "t2" /\ r.client_assertion.signer = "k2"
     /\ r.net \notin {NetDown, NoKeys}}

\* the scope a service requires of an access token
RequiredScopes == {<<"m">>, <<"l">>, <<"x">>}

\* the tokens a caller can present when the Tool holds the token h: that token,
\* the same claims signed with another key, a string that is no JWT, and a
\* launch hint, which the consumer signs with the same secret
PresentableTokens(h) ==
  {Malformed, Hint(ENCRYPTIONKEY, RESOURCE_LAUNCH)}
    \cup (IF h = NoReq THEN {} ELSE {h, [h EXCEPT !.signer = "otherkey"]})

----------------------------------------------------------------------------
(* The login and deep linking routes, one request at a time *)

Init ==
  /\ nonceDB = EmptyDB
  /\ tools = Registry0
  /\ accepted = EmptyDB
  /\ stage = "idle"
  /\ route = ""
  /\ req = NoReq
  /\ res = Fail("")
  /\ called = ""
  /\ procs = [p \in Procs |-> IdleProc]
  /\ remembered = NoReq
  /\ now = 0
  /\ held = NoReq
  /\ links = ToolLinks0
  /\ idtoken = NoReq
  /\ issued = NoReq
  /\ locals = EmptyLocals
  /\ instance = setup(Constructed, ENCRYPTIONKEY, [url |-> "mongodb://db"], UrlOnly(consumer.url)).inst
  /\ sent = <<>>

Receive(name, requests) ==
  /\ stage = "idle"
  /\ \E r \in requests : req' = r
  /\ stage' = "pending"
  /\ route' = name
  /\ UNCHANGED <<nonceDB, tools, accepted, res, called, procs, remembered, now, held, links, idtoken, issued, locals, instance, sent>>

ReceiveLogin == Receive("login", LoginRequests)

ReceiveDeepLinking == Receive("deeplinking", DLRequests)

\* LoginRoute handing every valid request to the core launch callback
LoginRoute_CoreOnly ==
  /\ stage = "pending"
  /\ route = "login"
  /\ LET out == validateLoginRequest(req, ENCRYPTIONKEY, nonceDB, tools) IN
       /\ nonceDB' = out.db
       /\ res' = out.res
       /\ called' = IF out.res.err # "" THEN "invalidLoginRequestCallback" ELSE "coreLaunchCallback"
       /\ locals' = IF out.res.err # "" THEN LocalsErr(401, out.res.err)
                    ELSE [locals EXCEPT !.serviceAction = out.res.val]
       /\ sent' = IF out.res.err # "" THEN <<Answer(401, out.res.err, "default")>>
                  ELSE <<callbackAnswer(instance.callbacks, called')>>
       /\ accepted' = IF loginNonceLookup(req, ENCRYPTIONKEY, nonceDB) = Continue
                      THEN [accepted EXCEPT ![req.nonce] = @ + 1]
                      ELSE accepted
  /\ stage' = "done"
  /\ UNCHANGED <<tools, route, req, procs, remembered, now, held, links, idtoken, issued, instance>>

\* Lines 188-207
LoginRoute ==
  /\ stage = "pending"
  /\ route = "login"
  /\ LET out == validateLoginRequest(req, ENCRYPTIONKEY, nonceDB, tools) IN
       /\ nonceDB' = out.db
       /\ res' = out.res
       /\ called' = IF out.res.err # "" THEN "invalidLoginRequestCallback"
                    ELSE IF out.res.val.params.type = DEEPLINKING_LAUNCH
                         THEN "deepLinkingLaunchCallback"
                         ELSE "coreLaunchCallback"
       /\ locals' = IF out.res.err # "" THEN LocalsErr(401, out.res.err)
                    ELSE [locals EXCEPT !.serviceAction = out.res.val]
       /\ sent' = IF out.res.err # "" THEN <<Answer(401, out.res.err, "default")>>
                  ELSE <<callbackAnswer(instance.callbacks, called')>>
       /\ accepted' = IF loginNonceLookup(req, ENCRYPTIONKEY, nonceDB) = Continue
                      THEN [accepted EXCEPT ![req.nonce] = @ + 1]
                      ELSE accepted
  /\ stage' = "done"
  /\ UNCHANGED <<tools, route, req, procs, remembered, now, held, links, idtoken, issued, instance>>

\* Lines 210-227
DeepLinkingRoute ==
  /\ stage = "pending"
  /\ route = "deeplinking"
  /\ LET out == validateDeepLinkingRequest(req, DLQuery, nonceDB, tools) IN
       /\ nonceDB' = out.db
       /\ res' = out.res
       /\ called' = IF out.res.err # "" THEN "invalidDeepLinkingRequestCallback"
                    ELSE "deepLinkingRequestCallback"
       /\ locals' = IF out.res.err # "" THEN LocalsErr(400, out.res.err)
                    ELSE [locals EXCEPT !.serviceAction = out.res.val]
       /\ sent' = IF out.res.err # "" THEN <<Answer(400, out.res.err, "default")>>
                  ELSE <<callbackAnswer(instance.callbacks, called')>>
       /\ accepted' = IF dlNonceLookup(req, nonceDB, tools) = Continue
                         /\ req.JWT.payload.nonce # NoNonce
                      THEN [accepted EXCEPT ![req.JWT.payload.nonce] = @ + 1]
                      ELSE accepted
  /\ stage' = "done"
  /\ UNCHANGED <<tools, route, req, procs, remembered, now, held, links, idtoken, issued, instance>>

\* the response has been sent; the server waits for the next request
Respond ==
  /\ stage = "done"
  /\ stage' = "idle"
  /\ route' = ""
  /\ req' = NoReq
  /\ res' = Fail("")
  /\ called' = ""
  /\ idtoken' = NoReq
  /\ locals' = EmptyLocals
  /\ sent' = <<>>
  /\ UNCHANGED <<nonceDB, tools, accepted, procs, remembered, now, held, links, issued, instance>>

Next ==
  \/ ReceiveLogin
  \/ ReceiveDeepLinking
  \/ LoginRoute
  \/ DeepLinkingRoute
  \/ Respond

Spec == Init /\ [][Next]_vars

----------------------------------------------------------------------------
(* The same two routes with requests handled concurrently: a handler gives  *)
(* up control at each await, so the lookup and the insert of the nonce are  *)
(* separate steps of a worker.                                              *)

SetProc(p, pc, name, r, result) ==
  procs' = [procs EXCEPT ![p] = [pc |-> pc, route |-> name, req |-> r, res |-> result]]

\* Lines 752-765: a login request arrives and runs up to the await of Database.get
LoginLookup(p) ==
  /\ procs[p].pc = "idle"
  /\ \E r \in FewLoginRequests :
       LET err == loginNonceLookup(r, ENCRYPTIONKEY, nonceDB) IN
       IF err # Continue THEN SetProc(p, "done", "login", r, Fail(err))
       ELSE SetProc(p, "insert", "login", r, Fail(""))
  /\ UNCHANGED <<nonceDB, tools, accepted, serverVars, remembered, now, held, links, idtoken, issued, locals, instance, sent>>

\* Lines 767-809: the handler resumes with the insert and runs to the end
LoginInsert(p) ==
  /\ procs[p].pc = "insert"
  /\ procs[p].route = "login"
  /\ LET out == loginAfterLookup(procs[p].req, nonceDB, tools) IN
       /\ nonceDB' = out.db
       /\ SetProc(p, "done", "login", procs[p].req, out.res)
  /\ accepted' = [accepted EXCEPT ![procs[p].req.nonce] = @ + 1]
  /\ UNCHANGED <<tools, serverVars, remembered, now, held, links, idtoken, issued, locals, instance, sent>>

\* Lines 818-829: a deep linking response arrives and runs up to the await of Database.get
DeepLinkingLookup(p) ==
  /\ procs[p].pc = "idle"
  /\ \E r \in FewDLRequests :
       LET err == dlNonceLookup(r, nonceDB, tools) IN
       IF err # Continue THEN SetProc(p, "done", "deeplinking", r, Fail(err))
       ELSE SetProc(p, "insert", "deeplinking", r, Fail(""))
  /\ UNCHANGED <<nonceDB, tools, accepted, serverVars, remembered, now, held, links, idtoken, issued, locals, instance, sent>>

\* Lines 831-858: the handler resumes with the insert and runs to the end
DeepLinkingInsert(p) ==
  /\ procs[p].pc = "insert"
  /\ procs[p].route = "deeplinking"
  /\ LET out == dlAfterLookup(procs[p].req, DLQuery, nonceDB, tools) IN
       /\ nonceDB' = out.db
       /\ SetProc(p, "done", "deeplinking", procs[p].req, out.res)
  /\ accepted' = IF procs[p].req.JWT.payload.nonce # NoNonce
                 THEN [accepted EXCEPT ![procs[p].req.JWT.payload.nonce] = @ + 1]
                 ELSE accepted
  /\ UNCHANGED <<tools, serverVars, remembered, now, held, links, idtoken, issued, locals, instance, sent>>

NextConc ==
  \/ \E p \in Procs : LoginLookup(p)
  \/ \E p \in Procs : LoginInsert(p)
  \/ \E p \in Procs : DeepLinkingLookup(p)
  \/ \E p \in Procs : DeepLinkingInsert(p)

SpecConc == Init /\ [][NextConc]_vars

----------------------------------------------------------------------------
(* One request at a time, remembering one deep linking response that was    *)
(* submitted with a valid signature and a nonce, with its outcome.          *)

ReplayReceiveLogin == Receive("login", FewLoginRequests)

ReplayReceiveDeepLinking == Receive("deeplinking", FewDLRequests)

\* the response is validly signed: its issuer is registered and verifyToken accepts it
ValidlySigned(r, reg) ==
  /\ r.JWT # Missing
  /\ r.JWT # Malformed
  /\ getTool(reg, r.JWT.payload.iss) # Null
  /\ verifyToken(r.JWT, getTool(reg, r.JWT.payload.iss), r.JWT.alg, r.JWT.kid, r.net) = Continue

Remember ==
  /\ stage = "done"
  /\ route = "deeplinking"
  /\ remembered = NoReq
  /\ ValidlySigned(req, tools)
  /\ req.JWT.payload.nonce # NoNonce
  /\ remembered' = [JWT |-> req.JWT, err |-> res.err]
  /\ UNCHANGED <<nonceDB, tools, accepted, serverVars, procs, now, held, links, idtoken, issued, locals, instance, sent>>

NextReplay ==
  \/ ReplayReceiveLogin
  \/ ReplayReceiveDeepLinking
  \/ LoginRoute
  \/ DeepLinkingRoute
  \/ Remember
  \/ Respond

SpecReplay == Init /\ [][NextReplay]_vars

----------------------------------------------------------------------------
(* The access token route, one request at a time *)

ReceiveAccessToken == Receive("accesstoken", GrantRequests)

\* Lines 230-247
AccessTokenRoute ==
  /\ stage = "pending"
  /\ route = "accesstoken"
  /\ res' = generateAccessToken(req, consumer, ENCRYPTIONKEY, tools, now)
  /\ called' = IF res'.err # "" THEN "invalidAccessTokenRequestCallback" ELSE "send200"
  /\ locals' = IF res'.err # "" THEN LocalsErr(400, res'.err) ELSE locals
  /\ sent' = IF res'.err # "" THEN <<Answer(400, res'.err, "default")>> ELSE <<Answer(200, "", "route")>>
  /\ stage' = "done"
  /\ UNCHANGED <<nonceDB, tools, accepted, route, req, procs, remembered, now, held, links, idtoken, issued, instance>>

NextGrant ==
  \/ ReceiveAccessToken
  \/ AccessTokenRoute
  \/ Respond

SpecGrant == Init /\ [][NextGrant]_vars

----------------------------------------------------------------------------
(* Access tokens issued to the Tools and presented later to a service *)

ServiceReceiveAccessToken == Receive("accesstoken", FewGrantRequests)

\* the Tool keeps the access token of the 200 response
Keep ==
  /\ stage = "done"
  /\ route = "accesstoken"
  /\ res.err = ""
  /\ held' = res.val.access_token
  /\ held' # held
  /\ issued' = tools[held'.payload.clientId].privacy
  /\ UNCHANGED <<nonceDB, tools, accepted, serverVars, procs, remembered, now, links, idtoken, locals, instance, sent>>

\* a service is called with a token and checks it for the scope it requires
ReceiveService ==
  /\ stage = "idle"
  /\ \E t \in PresentableTokens(held), sc \in RequiredScopes : req' = [token |-> t, scope |-> sc]
  /\ stage' = "pending"
  /\ route' = "service"
  /\ UNCHANGED <<nonceDB, tools, accepted, res, called, procs, remembered, now, held, links, idtoken, issued, locals, instance, sent>>

\* ValidateAccessToken consulting the registry as it was at construction
ValidateAccessToken_InitialRegistry ==
  /\ stage = "pending"
  /\ route = "service"
  /\ res' = validateAccessToken(req.token, req.scope, ENCRYPTIONKEY, Registry0, now)
  /\ called' = IF res'.err # "" THEN "send400" ELSE "service"
  /\ sent' = IF res'.err # "" THEN <<Answer(400, res'.err, "route")>> ELSE <<>>
  /\ stage' = "done"
  /\ UNCHANGED <<nonceDB, tools, accepted, route, req, procs, remembered, now, held, links, idtoken, issued, locals, instance>>

\* Lines 1041-1060, called at line 266 for a header that names a token; when
\* the token is rejected the catch of the route answers 400 (lines 306-316)
ValidateAccessToken ==
  /\ stage = "pending"
  /\ route = "service"
  /\ res' = validateAccessToken(req.token, req.scope, ENCRYPTIONKEY, tools, now)
  /\ called' = IF res'.err # "" THEN "send400" ELSE "service"
  /\ sent' = IF res'.err # "" THEN <<Answer(400, res'.err, "route")>> ELSE <<>>
  /\ stage' = "done"
  /\ UNCHANGED <<nonceDB, tools, accepted, route, req, procs, remembered, now, held, links, idtoken, issued, locals, instance>>

TickSeconds == 1800

\* time passes between two requests
Tick ==
  /\ stage = "idle"
  /\ now < MaxTicks * TickSeconds
  /\ now' = now + TickSeconds
  /\ UNCHANGED <<nonceDB, tools, accepted, serverVars, procs, remembered, held, links, idtoken, issued, locals, instance, sent>>

NextService ==
  \/ ServiceReceiveAccessToken
  \/ AccessTokenRoute
  \/ Keep
  \/ ReceiveService
  \/ ValidateAccessToken
  \/ Tick
  \/ Respond

SpecService == Init /\ [][NextService]_vars

----------------------------------------------------------------------------
(* Access tokens presented while the Tool registry changes.  The registry   *)
(* operations are calls of the administrator; they take place between two   *)
(* requests or while a launch waits for its ID Token.                       *)

RegistryIdle == stage = "idle" \/ (stage = "done" /\ route = "login")

\* Lines 617-619
UpdateTool(toolInfos) ==
  /\ RegistryIdle
  /\ \E t \in DOMAIN tools, info \in toolInfos : tools' = updateTool(tools, t, info)
  /\ UNCHANGED <<nonceDB, accepted, serverVars, procs, remembered, now, held, links, idtoken, issued, locals, instance, sent>>

\* Lines 641-643
DeleteTool ==
  /\ RegistryIdle
  /\ \E t \in DOMAIN tools : tools' = deleteTool(tools, t)
  /\ UNCHANGED <<nonceDB, accepted, serverVars, procs, remembered, now, held, links, idtoken, issued, locals, instance, sent>>

\* the updates of a Tool: its scopes are withdrawn or replaced, its privacy level lowered
RegistryToolInfos == {[scopes |-> <<>>], [scopes |-> <<"LINEITEM">>], [privacy |-> privacyLevels.NONE]}

RegistryUpdateTool == UpdateTool(RegistryToolInfos)

\* access token requests for the memberships scope, alone or with the line item scope
RegistryGrantRequests ==
  {[grant_type |-> "client_credentials",
    client_assertion_type |-> JWT_BEARER,
    client_assertion |-> [alg |-> "RS256", kid |-> "kid2", signer |-> who[2],
                          payload |-> [sub |-> who[1], aud |-> [str |-> accesstokenURL]]],
    scope |-> sc,
    net |-> [keys |-> <<[kid |-> "kid2", key |-> "k2"]>>]] :
     who \in {<<"t1", "k1">>, <<"t2", "k2">>}, sc \in {<<"m">>, <<"m", " ", "l">>}}

RegistryReceiveAccessToken == Receive("accesstoken", RegistryGrantRequests)

\* the Tool calls a service with the token it holds
RegistryReceiveService ==
  /\ stage = "idle"
  /\ held # NoReq
  /\ \E sc \in {<<"m">>, <<"l">>} : req' = [token |-> held, scope |-> sc]
  /\ stage' = "pending"
  /\ route' = "service"
  /\ UNCHANGED <<nonceDB, tools, accepted, res, called, procs, remembered, now, held, links, idtoken, issued, locals, instance, sent>>

NextRegistry ==
  \/ RegistryReceiveAccessToken
  \/ AccessTokenRoute
  \/ Keep
  \/ RegistryReceiveService
  \/ ValidateAccessToken
  \/ RegistryUpdateTool
  \/ DeleteTool
  \/ Tick
  \/ Respond

SpecRegistry == Init /\ [][NextRegistry]_vars

----------------------------------------------------------------------------
(* The login, deep linking and access token routes of one server, one       *)
(* request at a time, remembering one deep linking response and its outcome *)

\* login requests that differ in the launch hint, the nonce, the scope, the
\* prompt and the Tool
RoutesLoginRequests ==
  {r \in LoginRequests :
     /\ r.response_type = "id_token" /\ r.response_mode = "form_post"
     /\ r.client_id \in {"t1", "tx"} /\ r.lti_deployment_id = "d1" /\ r.redirect_uri = "u1"
     /\ r.login_hint = "user1"}

RoutesReceiveLogin == Receive("login", RoutesLoginRequests)

NextRoutes ==
  \/ RoutesReceiveLogin
  \/ ReplayReceiveDeepLinking
  \/ ServiceReceiveAccessToken
  \/ LoginRoute
  \/ DeepLinkingRoute
  \/ AccessTokenRoute
  \/ Remember
  \/ Respond

SpecRoutes == Init /\ [][NextRoutes]_vars

----------------------------------------------------------------------------
(* The memberships route, called with an Authorization header *)

HeaderChars == {"Bearer", "bearer", "BEARER", "Basic", "h", " "}

\* req.headers.authorization; the empty sequence is a header that was not sent
Headers == UNION {[1 .. n -> HeaderChars] : n \in 0 .. MaxHeaderLen}

ReceiveMemberships ==
  /\ stage = "idle"
  /\ \E a \in Headers : req' = [authorization |-> a, context |-> "c1"]
  /\ stage' = "pending"
  /\ route' = "memberships"
  /\ UNCHANGED <<nonceDB, tools, accepted, res, called, procs, remembered, now, held, links, idtoken, issued, locals, instance, sent>>

\* Lines 281-317.  An Error thrown for the header is caught in the helper,
\* which answers 401 and returns what res.send returns, the response object;
\* the handler goes on with it: it sets res.locals.serviceAction and calls the
\* memberships request callback, which can send nothing more.  The promise of
\* Auth.validateAccessToken is returned by the helper without await, so its
\* rejection is not caught there: it is thrown by the await of line 283 and
\* the catch of the handler answers 400.
MembershipsRoute ==
  /\ stage = "pending"
  /\ route = "memberships"
  /\ LET herr == headerError(req.authorization)
         out == routeValidateAccessToken(req.authorization, validScopes.MEMBERSHIPS,
                                         ENCRYPTIONKEY, tools, now, held)
     IN /\ res' = out
        /\ called' = IF herr # Continue THEN "send401, membershipsRequestCallback"
                     ELSE IF out.err # "" THEN "send400"
                     ELSE "membershipsRequestCallback"
        /\ locals' = IF herr # Continue
                     THEN [locals EXCEPT !.serviceAction = membershipsServiceAction(EmptyObject, req.context)]
                     ELSE IF out.err # "" THEN locals
                     ELSE [locals EXCEPT !.serviceAction = membershipsServiceAction(out.val, req.context)]
        /\ sent' = IF herr # Continue THEN <<Answer(401, herr, "route")>>
                   ELSE IF out.err # "" THEN <<Answer(400, out.err, "route")>>
                   ELSE <<callbackAnswer(instance.callbacks, "membershipsRequestCallback")>>
  /\ stage' = "done"
  /\ UNCHANGED <<nonceDB, tools, accepted, route, req, procs, remembered, now, held, links, idtoken, issued, instance>>

NextMemberships ==
  \/ RegistryReceiveAccessToken
  \/ AccessTokenRoute
  \/ Keep
  \/ ReceiveMemberships
  \/ MembershipsRoute
  \/ Respond

SpecMemberships == Init /\ [][NextMemberships]_vars

----------------------------------------------------------------------------
(* Launches: a login request is validated and the launch callback has the   *)
(* ID Token built, while Tools and ToolLinks are updated and deleted.       *)

\* login requests of a registered Tool that differ in the launch hint, the
\* nonce, the Tool and the state parameter
LaunchLoginRequests ==
  {r \in [lti_message_hint : Hints \ {Missing},
          nonce : Nonce,
          scope : {"openid"},
          response_type : {"id_token"},
          response_mode : {"form_post"},
          prompt : {"none"},
          client_id : {"t1", "t2"},
          lti_deployment_id : {"d1", "d2"},
          redirect_uri : {"u1"},
          login_hint : {"user1"},
          state : {Absent, "s1"},
          random : {"r1"}] :
     (r.client_id = "t1") <=> (r.lti_deployment_id = "d1")}

LaunchReceiveLogin == Receive("login", LaunchLoginRequests)

\* the user and context data the launch callback passes to buildIdToken
IdentityData ==
  [user |-> [roles |-> <<"Learner">>, email |-> "u@lms", given_name |-> "Ada",
             family_name |-> "Doe", name |-> "Ada Doe"],
   launch |-> [context |-> [id |-> "c1", label |-> "C1", title |-> "Course 1", type |-> <<"CourseSection">>],
               resource |-> [id |-> "res1", title |-> "Resource 1"]]]

\* Lines 435-437: the launch callback calls buildIdToken with the
\* serviceAction it was given, or with nothing, and with identity data or none
BuildIdToken ==
  /\ stage = "done"
  /\ route = "login"
  /\ called \in {"coreLaunchCallback", "deepLinkingLaunchCallback"}
  /\ idtoken = NoReq
  /\ \E serviceAction \in {Null, locals.serviceAction}, _idtoken \in {Null, IdentityData} :
       idtoken' = buildIdToken(serviceAction, _idtoken, consumer, tools, links, "n1")
                    @@ [serviceAction |-> serviceAction, _idtoken |-> _idtoken]
  /\ UNCHANGED <<nonceDB, tools, accepted, serverVars, procs, remembered, now, held, links, issued, locals, instance, sent>>

\* Lines 632-634
UpdateToolLink(toolLinkInfos) ==
  /\ RegistryIdle
  /\ \E l \in DOMAIN links, info \in toolLinkInfos : links' = updateToolLink(links, l, info)
  /\ UNCHANGED <<nonceDB, tools, accepted, serverVars, procs, remembered, now, held, idtoken, issued, locals, instance, sent>>

\* Lines 650-652
DeleteToolLink ==
  /\ RegistryIdle
  /\ \E l \in DOMAIN links : links' = deleteToolLink(links, l)
  /\ UNCHANGED <<nonceDB, tools, accepted, serverVars, procs, remembered, now, held, idtoken, issued, locals, instance, sent>>

\* the privacy level of a Tool is set to any level a Tool can have
LaunchToolInfos ==
  {[privacy |-> p] : p \in {privacyLevels.NONE, privacyLevels.EMAIL,
                            privacyLevels.NAME, privacyLevels.COMPLETE}}

\* the privacy level of a ToolLink is set to any level, INHERIT included
LaunchToolLinkInfos ==
  {[privacy |-> p] : p \in {privacyLevels.NONE, privacyLevels.EMAIL, privacyLevels.NAME,
                            privacyLevels.COMPLETE, privacyLevels.INHERIT}}

LaunchUpdateTool == UpdateTool(LaunchToolInfos)

LaunchUpdateToolLink == UpdateToolLink(LaunchToolLinkInfos)

NextLaunch ==
  \/ LaunchReceiveLogin
  \/ LoginRoute
  \/ BuildIdToken
  \/ LaunchUpdateTool
  \/ DeleteTool
  \/ LaunchUpdateToolLink
  \/ DeleteToolLink
  \/ Respond

SpecLaunch == Init /\ [][NextLaunch]_vars

----------------------------------------------------------------------------
(* The verification of the tokens the Tools sign: deep linking responses    *)
(* and client assertions with any algorithm in their header, while the      *)
(* authentication method of the Tools is changed.                           *)

\* req.body of the deep linking route.  The header and the signature of the
\* token are those anyone can send: the public keys of the Tools are known
\* to everyone, so an HS256 token can be signed with one of them as the
\* secret; signer is then that key.
VerifyDLRequests ==
  {[JWT |-> [alg |-> a, kid |-> k, signer |-> s,
             payload |-> [iss |-> t, nonce |-> n, aud |-> consumer.url,
                          deployment_id |-> IF t = "t2" THEN "d2" ELSE "d1",
                          message_type |-> DEEPLINKING_RESPONSE, version |-> "1.3.0"]],
    net |-> x] :
     a \in {"RS256", "HS256", "none"}, k \in {Absent, "kid2", "kid3"},
     s \in {"k1", "k2", "otherkey"},
     t \in {"t1", "t2", "tx"}, n \in {NoNonce, 1}, x \in NetResponses}

\* req.body of the access token route
VerifyGrantRequests ==
  {[grant_type |-> "client_credentials",
    client_assertion_type |-> JWT_BEARER,
    client_assertion |-> [alg |-> a, kid |-> k, signer |-> s,
                          payload |-> [sub |-> t, aud |-> [str |-> accesstokenURL]]],
    scope |-> <<"m">>,
    net |-> x] :
     a \in {"RS256", "HS256", "none"}, k \in {Absent, "kid2", "kid3"},
     s \in {"k1", "k2", "otherkey"},
     t \in {"t1", "t2", "tx"}, x \in NetResponses}

VerifyReceiveDeepLinking == Receive("deeplinking", VerifyDLRequests)

VerifyReceiveAccessToken == Receive("accesstoken", VerifyGrantRequests)

\* the authentication methods a Tool can be given: a keyset URL, a static JWK
\* or RSA key, present or not, a method that is none of the three, and none
VerifyToolInfos ==
  {[authConfig |-> [method |-> m, key |-> k]] :
     m \in {"JWK_KEY", "RSA_KEY", "OTHER", Undefined}, k \in {Absent, "k1"}}
    \cup {[authConfig |-> [method |-> "JWK_SET", key |-> "https://tool2/keys"]]}

VerifyUpdateTool == UpdateTool(VerifyToolInfos)

NextVerify ==
  \/ VerifyReceiveDeepLinking
  \/ VerifyReceiveAccessToken
  \/ DeepLinkingRoute
  \/ AccessTokenRoute
  \/ VerifyUpdateTool
  \/ Respond

SpecVerify == Init /\ [][NextVerify]_vars

----------------------------------------------------------------------------
(* The callbacks of the Consumer: handlers are registered before and after  *)
(* deploy, and the routes of the deployed Consumer call them.               *)

\* Lines 444-485: one of onCoreLaunch, onDeepLinkingLaunch, onDeepLinkingRequest
\* and onMembershipsRequest is called, with a handler or with nothing
Register ==
  /\ \E slot \in DOMAIN DefaultCallbacks, cb \in {Absent, "h1", "h2"} :
       instance' = [instance EXCEPT
                      !.callbacks = onCallback(@, slot, cb),
                      !.late = IF cb # Absent /\ instance.deployed
                                  /\ instance.callbacks[slot] \notin {"default", cb}
                               THEN @ \cup {slot} ELSE @]
  /\ UNCHANGED <<nonceDB, tools, accepted, serverVars, procs, remembered, now, held, links, idtoken, issued, locals, sent>>

\* Lines 331-360: deploy connects the database and starts listening
Deploy ==
  /\ ~instance.deployed
  /\ instance' = deploy(instance).inst
  /\ UNCHANGED <<nonceDB, tools, accepted, serverVars, procs, remembered, now, held, links, idtoken, issued, locals, sent>>

\* Lines 188, 210, 230, 281: the deployed Consumer receives a login request, a
\* deep linking response, an access token request or a memberships request
CallbacksReceive ==
  /\ instance.deployed
  /\ \/ Receive("login",
               {[lti_message_hint |-> h, nonce |-> n, scope |-> "openid",
                 response_type |-> "id_token", response_mode |-> "form_post", prompt |-> "none",
                 client_id |-> "t1", lti_deployment_id |-> "d1", redirect_uri |-> "u1",
                 login_hint |-> "user1", state |-> Absent, random |-> "r1"] :
                  h \in Hints \ {Missing}, n \in Nonce})
     \/ Receive("deeplinking",
               {[JWT |-> [alg |-> "RS256", kid |-> Absent, signer |-> k,
                          payload |-> [iss |-> "t1", nonce |-> NoNonce, aud |-> consumer.url,
                                       deployment_id |-> "d1",
                                       message_type |-> DEEPLINKING_RESPONSE, version |-> "1.3.0"]],
                 net |-> NetDown] : k \in {"k1", "otherkey"}})
     \/ Receive("accesstoken",
               {[grant_type |-> "client_credentials", client_assertion_type |-> JWT_BEARER,
                 client_assertion |-> [alg |-> "RS256", kid |-> Absent, signer |-> "k1",
                                       payload |-> [sub |-> "t1", aud |-> [str |-> accesstokenURL]]],
                 scope |-> <<"m">>, net |-> NetDown]})
     \/ Receive("memberships",
               {[authorization |-> a, context |-> "c1"] : a \in {<<>>, <<"Bearer", " ", "h">>}})

NextCallbacks ==
  \/ Register
  \/ Deploy
  \/ CallbacksReceive
  \/ LoginRoute
  \/ DeepLinkingRoute
  \/ AccessTokenRoute
  \/ Keep
  \/ MembershipsRoute
  \/ Respond

SpecCallbacks == Init /\ [][NextCallbacks]_vars

----------------------------------------------------------------------------
(* Every operation of the Auth class under concurrent requests: each worker *)
(* handles one request, a login request (and then the building of the ID    *)
(* Token of the launch), a deep linking response, an access token request   *)
(* or the check of an access token.                                         *)

\* the requests of a worker: login requests and deep linking responses of
\* Tool t1 that differ in the signing key, the nonce and one claim
FrameLoginRequests ==
  {[lti_message_hint |-> Hint(k, RESOURCE_LAUNCH), nonce |-> n, scope |-> sc,
    response_type |-> "id_token", response_mode |-> "form_post", prompt |-> "none",
    client_id |-> "t1", lti_deployment_id |-> "d1", redirect_uri |-> "u1",
    login_hint |-> "user1", state |-> Absent, random |-> "r1"] :
     k \in {ENCRYPTIONKEY, "otherkey"}, n \in Nonce, sc \in {"openid", "email"}}

FrameDLRequests ==
  {[JWT |-> [alg |-> "RS256", kid |-> Absent, signer |-> k,
             payload |-> [iss |-> "t1", nonce |-> n, aud |-> a, deployment_id |-> "d1",
                          message_type |-> DEEPLINKING_RESPONSE, version |-> "1.3.0"]],
    net |-> NetDown] :
     k \in {"k1", "otherkey"}, n \in {NoNonce} \cup Nonce, a \in {consumer.url, "https://other"}}

\* Lines 752-765, as LoginLookup
FrameLoginLookup(p) ==
  /\ procs[p].pc = "idle"
  /\ \E r \in FrameLoginRequests :
       LET err == loginNonceLookup(r, ENCRYPTIONKEY, nonceDB) IN
       IF err # Continue THEN SetProc(p, "done", "login", r, Fail(err))
       ELSE SetProc(p, "insert", "login", r, Fail(""))
  /\ UNCHANGED <<nonceDB, tools, accepted, serverVars, remembered, now, held, links, idtoken, issued, locals, instance, sent>>

\* Lines 818-829, as DeepLinkingLookup
FrameDeepLinkingLookup(p) ==
  /\ procs[p].pc = "idle"
  /\ \E r \in FrameDLRequests :
       LET err == dlNonceLookup(r, nonceDB, tools) IN
       IF err # Continue THEN SetProc(p, "done", "deeplinking", r, Fail(err))
       ELSE SetProc(p, "insert", "deeplinking", r, Fail(""))
  /\ UNCHANGED <<nonceDB, tools, accepted, serverVars, remembered, now, held, links, idtoken, issued, locals, instance, sent>>

\* GrantWork recording a nonce for the access token it issues
GrantWork_Records(p) ==
  /\ procs[p].pc = "idle"
  /\ \E r \in RegistryGrantRequests :
       SetProc(p, "done", "accesstoken", r, generateAccessToken(r, consumer, ENCRYPTIONKEY, tools, now))
  /\ nonceDB' = DatabaseInsert(nonceDB, 1)
  /\ UNCHANGED <<tools, accepted, serverVars, remembered, now, held, links, idtoken, issued, locals, instance, sent>>

\* Lines 988-1033: a worker handles an access token request
GrantWork(p) ==
  /\ procs[p].pc = "idle"
  /\ \E r \in RegistryGrantRequests :
       SetProc(p, "done", "accesstoken", r, generateAccessToken(r, consumer, ENCRYPTIONKEY, tools, now))
  /\ UNCHANGED <<nonceDB, tools, accepted, serverVars, remembered, now, held, links, idtoken, issued, locals, instance, sent>>

\* Lines 1041-1060: a worker checks an access token issued earlier, or the
\* same token signed with another key, for the scope a service requires
ServiceWork(p) ==
  /\ procs[p].pc = "idle"
  /\ \E r \in RegistryGrantRequests, k \in {ENCRYPTIONKEY, "otherkey"}, sc \in {<<"m">>, <<"l">>} :
       LET token == [accessTokenResponse(jwtDecode(r.client_assertion), r, ENCRYPTIONKEY, now).access_token
                       EXCEPT !.signer = k]
       IN SetProc(p, "done", "service", [token |-> token, scope |-> sc],
                  validateAccessToken(token, sc, ENCRYPTIONKEY, tools, now))
  /\ UNCHANGED <<nonceDB, tools, accepted, serverVars, remembered, now, held, links, idtoken, issued, locals, instance, sent>>

\* Lines 867-953: the launch callback of a valid login request has the ID Token built
BuildWork(p) ==
  /\ procs[p].pc = "done"
  /\ procs[p].route = "login"
  /\ procs[p].res.err = ""
  /\ procs' = [procs EXCEPT ![p] =
                 [pc |-> "built", route |-> "login", req |-> procs[p].req, res |-> procs[p].res,
                  built |-> buildIdToken(procs[p].res.val, IdentityData, consumer, tools, links, "n1")]]
  /\ UNCHANGED <<nonceDB, tools, accepted, serverVars, remembered, now, held, links, idtoken, issued, locals, instance, sent>>

NextFrame ==
  \/ \E p \in Procs : FrameLoginLookup(p)
  \/ \E p \in Procs : LoginInsert(p)
  \/ \E p \in Procs : FrameDeepLinkingLookup(p)
  \/ \E p \in Procs : DeepLinkingInsert(p)
  \/ \E p \in Procs : BuildWork(p)
  \/ \E p \in Procs : GrantWork(p)
  \/ \E p \in Procs : ServiceWork(p)

SpecFrame == Init /\ [][NextFrame]_vars

----------------------------------------------------------------------------
(* Requests that fail one of the checks made after the nonce step, and      *)
(* their retries: one request that had its nonce looked up is remembered,   *)
(* with its outcome.                                                        *)

\* login requests with a valid launch hint and a nonce, all of their other
\* parameters valid or one of them not
RetryReceiveLogin ==
  Receive("login",
          {[lti_message_hint |-> Hint(ENCRYPTIONKEY, RESOURCE_LAUNCH), nonce |-> n,
            scope |-> IF bad = 1 THEN "email" ELSE "openid",
            response_type |-> IF bad = 2 THEN "code" ELSE "id_token",
            response_mode |-> IF bad = 3 THEN "query" ELSE "form_post",
            prompt |-> IF bad = 4 THEN "login" ELSE "none",
            client_id |-> IF bad = 5 THEN "tx" ELSE "t1",
            lti_deployment_id |-> IF bad = 6 THEN "d2" ELSE "d1",
            redirect_uri |-> IF bad = 7 THEN "u2" ELSE "u1",
            login_hint |-> IF bad = 8 THEN Absent ELSE "user1",
            state |-> Absent, random |-> "r1"] : n \in Nonce, bad \in 0 .. 8})

\* deep linking responses signed by Tool t1 that carry a nonce, all of their
\* claims valid or one of them not
RetryReceiveDeepLinking ==
  Receive("deeplinking",
          {[JWT |-> [alg |-> "RS256", kid |-> Absent, signer |-> "k1",
                     payload |-> [iss |-> "t1", nonce |-> n,
                                  aud |-> IF bad = 1 THEN "https://other" ELSE consumer.url,
                                  deployment_id |-> IF bad = 2 THEN "d2" ELSE "d1",
                                  message_type |-> IF bad = 3 THEN "LtiResourceLinkRequest"
                                                   ELSE DEEPLINKING_RESPONSE,
                                  version |-> IF bad = 4 THEN "1.2.0" ELSE "1.3.0"]],
            net |-> NetDown] : n \in Nonce, bad \in 0 .. 4})

\* a login request that got to the nonce step is remembered, with its outcome
RememberLogin ==
  /\ stage = "done"
  /\ route = "login"
  /\ remembered = NoReq
  /\ remembered' = [login |-> req, err |-> res.err]
  /\ UNCHANGED <<nonceDB, tools, accepted, serverVars, procs, now, held, links, idtoken, issued, locals, instance, sent>>

NextRetry ==
  \/ RetryReceiveLogin
  \/ RetryReceiveDeepLinking
  \/ LoginRoute
  \/ DeepLinkingRoute
  \/ RememberLogin
  \/ Remember
  \/ Respond

SpecRetry == Init /\ [][NextRetry]_vars

----------------------------------------------------------------------------
(* Deep linking responses with and without a nonce claim, submitted again:  *)
(* one validly signed response without a nonce is remembered, with its      *)
(* outcome.                                                                 *)

\* deep linking responses of Tool t1, signed by it or not, with a nonce or
\* without, all of their claims valid or one of them not
ResubmitReceive ==
  Receive("deeplinking",
          {[JWT |-> [alg |-> "RS256", kid |-> Absent, signer |-> k,
                     payload |-> [iss |-> "t1", nonce |-> n,
                                  aud |-> IF bad = 1 THEN "https://other" ELSE consumer.url,
                                  deployment_id |-> IF bad = 2 THEN "d2" ELSE "d1",
                                  message_type |-> IF bad = 3 THEN "LtiResourceLinkRequest"
                                                   ELSE DEEPLINKING_RESPONSE,
                                  version |-> IF bad = 4 THEN "1.2.0" ELSE "1.3.0"]],
            net |-> NetDown] : k \in {"k1", "otherkey"}, n \in {NoNonce} \cup Nonce,
                               bad \in 0 .. 4})

\* a validly signed response without a nonce is remembered, with its outcome
RememberResponse ==
  /\ stage = "done"
  /\ route = "deeplinking"
  /\ remembered = NoReq
  /\ ValidlySigned(req, tools)
  /\ req.JWT.payload.nonce = NoNonce
  /\ remembered' = [JWT |-> req.JWT, err |-> res.err]
  /\ UNCHANGED <<nonceDB, tools, accepted, serverVars, procs, now, held, links, idtoken, issued, locals, instance, sent>>

NextResubmit ==
  \/ ResubmitReceive
  \/ DeepLinkingRoute
  \/ RememberResponse
  \/ Respond

SpecResubmit == Init /\ [][NextResubmit]_vars

----------------------------------------------------------------------------
(* A Consumer from its construction on: calls of setup and deploy, in any   *)
(* order and with any arguments.  route names the method called last, req   *)
(* holds its arguments and res.err the error it threw, if any.              *)

\* the state after new Consumer()
InitSetup ==
  /\ nonceDB = EmptyDB
  /\ tools = Registry0
  /\ accepted = EmptyDB
  /\ stage = "idle"
  /\ route = ""
  /\ req = NoReq
  /\ res = Fail("")
  /\ called = ""
  /\ procs = [p \in Procs |-> IdleProc]
  /\ remembered = NoReq
  /\ now = 0
  /\ held = NoReq
  /\ links = ToolLinks0
  /\ idtoken = NoReq
  /\ issued = NoReq
  /\ locals = EmptyLocals
  /\ instance = Constructed
  /\ sent = <<>>

\* Lines 117-321: a call of setup
Setup ==
  /\ \E k \in {Absent, ENCRYPTIONKEY, "key2"}, db \in {Null, [url |-> "mongodb://db"]},
        o \in {Null} \cup
              {[UrlOnly(u) EXCEPT !.loginRoute = r[1], !.accesstokenRoute = r[2],
                                  !.https = c[1], !.ssl = c[2]] :
                 u \in {Absent, "https://lms", "https://lms2", NotAString},
                 r \in {<<Absent, Absent>>, <<"/login2", "/accesstoken2">>},
                 c \in {<<FALSE, Null>>, <<TRUE, Null>>,
                        <<TRUE, [key |-> "pem", cert |-> "pem"]>>,
                        <<TRUE, [key |-> Absent, cert |-> "pem"]>>,
                        <<TRUE, [key |-> "pem", cert |-> Absent]>>}} :
       /\ req' = [encryptionkey |-> k, database |-> db, options |-> o]
       /\ instance' = setup(instance, k, db, o).inst
       /\ res' = Fail(setup(instance, k, db, o).err)
  /\ route' = "setup"
  /\ UNCHANGED <<nonceDB, tools, accepted, stage, called, procs, remembered, now, held, links, idtoken, issued, locals, sent>>

\* Lines 331-370: a call of deploy
SetupDeploy ==
  /\ req' = NoReq
  /\ instance' = deploy(instance).inst
  /\ res' = Fail(deploy(instance).err)
  /\ route' = "deploy"
  /\ UNCHANGED <<nonceDB, tools, accepted, stage, called, procs, remembered, now, held, links, idtoken, issued, locals, sent>>

NextSetup ==
  \/ Setup
  \/ SetupDeploy

SpecSetup == InitSetup /\ [][NextSetup]_vars

----------------------------------------------------------------------------
(* Properties *)

\* the login route (resp. the deep linking route) handles the pending request
LoginStep == stage = "pending" /\ route = "login" /\ stage' = "done"

DLStep == stage = "pending" /\ route = "deeplinking" /\ stage' = "done"

\* the login request carries a launch hint that decodes, so that its nonce is looked up
HintDecodes(r) == r.lti_message_hint # Missing /\ r.lti_message_hint.signer = ENCRYPTIONKEY

\* C1: for every nonce, at most one of the requests presenting it passes the
\* nonce step, whatever the interleaving of the lookups and inserts of
\* concurrently handled login requests and deep linking responses.
C1_AtMostOnePasses == \A n \in Nonce : accepted[n] <= 1

\* C2: with requests handled one after the other, a nonce is accepted at most
\* once; once a request carrying nonce n has passed the nonce step the record
\* of n stays in the ledger unchanged, every later login request or deep
\* linking response carrying n is rejected, with NONCE_ALREADY_RECEIVED when
\* it gets to the nonce step, and a presentation rejected so adds no record.
C2_AcceptedAtMostOnce ==
  [][\A n \in Nonce :
       /\ accepted'[n] <= 1
       /\ (accepted[n] >= 1) =>
            /\ nonceDB[n] = 1
            /\ nonceDB'[n] = nonceDB[n]
            /\ (LoginStep /\ req.nonce = n) =>
                 /\ res'.err # ""
                 /\ HintDecodes(req) => (res'.err = "NONCE_ALREADY_RECEIVED")
            /\ (DLStep /\ req.JWT \in DLTokens /\ req.JWT.payload.nonce = n) =>
                 /\ res'.err # ""
                 /\ ValidlySigned(req, tools) => (res'.err = "NONCE_ALREADY_RECEIVED")
       /\ ((LoginStep \/ DLStep) /\ res'.err = "NONCE_ALREADY_RECEIVED") => (nonceDB' = nonceDB)
    ]_vars

\* a deep linking response carrying a nonce that a login request used up is rejected
C2_Witness ==
  /\ stage = "done"
  /\ route = "deeplinking"
  /\ res.err = "NONCE_ALREADY_RECEIVED"
  /\ accepted[req.JWT.payload.nonce] = 1
  /\ nonceDB[req.JWT.payload.nonce] = 1
  /\ \A n \in Nonce : accepted[n] = 1

\* C3 as stated: a login request without lti_deployment_id that is rejected
\* with MISSING_LTI_DEPLOYMENT_ID_CLAIM has not reached nonce storage: the
\* ledger is as it was before the request.
C3_LedgerUntouched ==
  [][(LoginStep /\ req.lti_deployment_id = Absent
        /\ res'.err = "MISSING_LTI_DEPLOYMENT_ID_CLAIM") => (nonceDB' = nonceDB)]_vars

\* the checks of validateLoginRequest that precede the one of lti_deployment_id pass
C3_EarlierChecksPass(r, db, reg) ==
  /\ HintDecodes(r)
  /\ r.nonce # NoNonce
  /\ db[r.nonce] = 0
  /\ r.scope = "openid"
  /\ r.response_type = "id_token"
  /\ r.response_mode = "form_post"
  /\ r.prompt = "none"
  /\ r.client_id \in DOMAIN reg

\* C3 amended: a login request without lti_deployment_id is rejected with
\* MISSING_LTI_DEPLOYMENT_ID_CLAIM exactly when all earlier checks pass (the
\* later ones, redirect_uri and login_hint, are not looked at), and by then
\* its nonce has been stored: the ledger has gained the record of the
\* request's nonce and nothing else.
C3_NonceStoredBeforeDeploymentId ==
  [][(LoginStep /\ req.lti_deployment_id = Absent) =>
       /\ res'.err # ""
       /\ (res'.err = "MISSING_LTI_DEPLOYMENT_ID_CLAIM") <=> C3_EarlierChecksPass(req, nonceDB, tools)
       /\ (res'.err = "MISSING_LTI_DEPLOYMENT_ID_CLAIM") =>
            (nonceDB' = [nonceDB EXCEPT ![req.nonce] = 1])
    ]_vars

C3_Witness ==
  /\ stage = "done"
  /\ route = "login"
  /\ req.lti_deployment_id = Absent
  /\ req.redirect_uri = Absent
  /\ req.login_hint = Absent
  /\ res.err = "MISSING_LTI_DEPLOYMENT_ID_CLAIM"
  /\ nonceDB[req.nonce] = 1

\* the checks of the login request in the order of the specification, each
\* with the condition under which it is violated and the error it reports
C4_Checks(r, db, reg) ==
  << <<r.lti_message_hint = Missing, "MISSING_LTI_MESSAGE_HINT_CLAIM">>,
     <<r.lti_message_hint # Missing /\ r.lti_message_hint.signer # ENCRYPTIONKEY,
       "INVALID_MESSAGE_HINT_CLAIM">>,
     <<r.nonce = NoNonce, "MISSING_NONCE_CLAIM">>,
     <<r.nonce # NoNonce /\ db[r.nonce] > 0, "NONCE_ALREADY_RECEIVED">>,
     <<r.scope # "openid", "INVALID_SCOPE_CLAIM">>,
     <<r.response_type # "id_token", "INVALID_RESPONSE_TYPE_CLAIM">>,
     <<r.response_mode # "form_post", "INVALID_RESPONSE_MODE_CLAIM">>,
     <<r.prompt # "none", "INVALID_PROMPT_CLAIM">>,
     <<r.client_id = Absent, "MISSING_CLIENT_ID_CLAIM">>,
     <<r.client_id # Absent /\ r.client_id \notin DOMAIN reg, "INVALID_CLIENT_ID_CLAIM">>,
     <<r.lti_deployment_id = Absent, "MISSING_LTI_DEPLOYMENT_ID_CLAIM">>,
     <<r.lti_deployment_id # Absent /\ r.client_id \in DOMAIN reg
         /\ reg[r.client_id].deploymentId # r.lti_deployment_id,
       "INVALID_LTI_DEPLOYMENT_ID_CLAIM">>,
     <<r.redirect_uri = Absent, "MISSING_REDIRECT_URI_CLAIM">>,
     <<r.redirect_uri # Absent /\ r.client_id \in DOMAIN reg
         /\ \A i \in DOMAIN reg[r.client_id].redirectionURIs :
              reg[r.client_id].redirectionURIs[i] # r.redirect_uri,
       "INVALID_REDIRECT_URI_CLAIM">>,
     <<r.login_hint = Absent, "MISSING_LOGIN_HINT_CLAIM">> >>

C4_Violated(r, db, reg) == {i \in DOMAIN C4_Checks(r, db, reg) : C4_Checks(r, db, reg)[i][1]}

C4_Min(S) == CHOOSE i \in S : \A j \in S : i <= j

\* C4: validateLoginRequest reports the error of the earliest violated check
\* in the order hint, nonce, scope, response_type, response_mode, prompt,
\* client_id, lti_deployment_id, redirect_uri, login_hint, and returns a
\* LaunchIntent (which the route hands to a launch callback) only if no
\* check is violated.
C4_FirstFailureWins ==
  [][LoginStep =>
       LET violated == C4_Violated(req, nonceDB, tools) IN
       /\ (violated # {}) =>
            /\ res'.err = C4_Checks(req, nonceDB, tools)[C4_Min(violated)][2]
            /\ res'.val = NoAction
            /\ called' = "invalidLoginRequestCallback"
       /\ (violated = {}) =>
            /\ res'.err = ""
            /\ res'.val # NoAction
            /\ called' \in {"coreLaunchCallback", "deepLinkingLaunchCallback"}
    ]_vars

\* a request violating the response_mode, prompt and client_id checks and served
\* after a request that passed every check
C4_Witness ==
  /\ stage = "done"
  /\ route = "login"
  /\ req.response_mode # "form_post"
  /\ req.prompt # "none"
  /\ req.client_id = Absent
  /\ res.err = "INVALID_RESPONSE_MODE_CLAIM"
  /\ \E n \in Nonce : n # req.nonce /\ nonceDB[n] = 1

\* C5: a validly signed deep linking response carrying a nonce that is
\* submitted again, identical, is rejected with NONCE_ALREADY_RECEIVED and the
\* route calls the invalid-request callback, not the deep linking request
\* callback.
C5_ReplayRejected ==
  [][(DLStep /\ remembered # NoReq /\ req.JWT = remembered.JWT /\ ValidlySigned(req, tools)) =>
       /\ res'.err = "NONCE_ALREADY_RECEIVED"
       /\ called' = "invalidDeepLinkingRequestCallback"
       /\ nonceDB' = nonceDB
    ]_vars

\* the second submission of a response whose first submission was accepted
C5_Witness ==
  /\ stage = "done"
  /\ route = "deeplinking"
  /\ remembered # NoReq
  /\ remembered.err = ""
  /\ req.JWT = remembered.JWT
  /\ res.err = "NONCE_ALREADY_RECEIVED"
  /\ called = "invalidDeepLinkingRequestCallback"
  /\ accepted[req.JWT.payload.nonce] = 1

\* the access token route handles the pending request
GrantStep == stage = "pending" /\ route = "accesstoken" /\ stage' = "done"

\* the positions of the spaces of a scope string, and the k-th of them
C6_Spaces(str) == {i \in DOMAIN str : str[i] = " "}

C6_Space(str, k) ==
  CHOOSE i \in C6_Spaces(str) : Cardinality({j \in C6_Spaces(str) : j < i}) = k - 1

\* the k-th of the space-separated scopes requested by a scope string
C6_Word(str, k) ==
  SubSeq(str,
         IF k = 1 THEN 1 ELSE C6_Space(str, k - 1) + 1,
         IF k = Cardinality(C6_Spaces(str)) + 1 THEN Len(str) ELSE C6_Space(str, k) - 1)

\* the scope value maps to a scope code that is among the Tool's scopes
C6_Authorized(word, tool) ==
  \E code \in DOMAIN validScopes :
    /\ validScopes[code] = word
    /\ \E i \in DOMAIN tool.scopes : tool.scopes[i] = code

\* the positions, in request order, of the requested scopes that are not authorized
C6_Offending(str, tool) ==
  {k \in 1 .. (Cardinality(C6_Spaces(str)) + 1) : ~C6_Authorized(C6_Word(str, k), tool)}

\* the request gets to the scope check: the earlier checks pass
C6_ReachesScopes(r, reg) ==
  /\ r.grant_type = "client_credentials"
  /\ r.client_assertion_type = JWT_BEARER
  /\ r.client_assertion \in Assertions
  /\ r.client_assertion.payload.sub \in DOMAIN reg
  /\ r.scope # <<>>

\* C6: generateAccessToken returns a token only if every requested scope maps
\* to a scope code that the Tool is authorized for at issuance time; a request
\* that gets to the scope check with an offending scope fails with
\* INVALID_SCOPE_CLAIM naming the first offending value in request order, and
\* no token is issued.
C6_ScopesAuthorized ==
  [][GrantStep =>
       /\ (res'.err = "") =>
            /\ C6_ReachesScopes(req, tools)
            /\ C6_Offending(req.scope, tools[req.client_assertion.payload.sub]) = {}
       /\ (C6_ReachesScopes(req, tools)
             /\ C6_Offending(req.scope, tools[req.client_assertion.payload.sub]) # {}) =>
            /\ res'.err = "INVALID_SCOPE_CLAIM"
            /\ res'.detail = C6_Word(req.scope,
                   C4_Min(C6_Offending(req.scope, tools[req.client_assertion.payload.sub])))
            /\ res'.val = NoAction
            /\ called' = "invalidAccessTokenRequestCallback"
    ]_vars

\* scope "memberships unknown_scope" asked by a Tool authorized for memberships only
C6_Witness ==
  /\ stage = "done"
  /\ route = "accesstoken"
  /\ req.scope = <<"m", " ", "x">>
  /\ req.client_assertion \in Assertions
  /\ req.client_assertion.payload.sub = "t1"
  /\ tools["t1"].scopes = <<"MEMBERSHIPS">>
  /\ res.err = "INVALID_SCOPE_CLAIM"
  /\ res.detail = <<"x">>
  /\ res.val = NoAction

\* the request gets to the audience check: the earlier checks pass
C7_ReachesAud(r, reg) ==
  /\ C6_ReachesScopes(r, reg)
  /\ C6_Offending(r.scope, reg[r.client_assertion.payload.sub]) = {}

\* the aud claim is the URL as a string, or an array that contains the URL
C7_AudMatches(aud, u) ==
  \/ aud = [str |-> u]
  \/ "arr" \in DOMAIN aud /\ \E i \in DOMAIN aud.arr : aud.arr[i] = u

\* C7: the audience check of generateAccessToken accepts an aud claim that is
\* the access token endpoint URL, as a string or as an array containing it,
\* and fails with INVALID_AUD_CLAIM exactly when neither holds.
C7_AudStringOrArray ==
  [][(GrantStep /\ C7_ReachesAud(req, tools)) =>
       ((res'.err = "INVALID_AUD_CLAIM")
          <=> ~C7_AudMatches(req.client_assertion.payload.aud, accesstokenURL))
    ]_vars

\* C8: an access token request with valid grant_type and client_assertion_type
\* (and a scope) and without client_assertion is rejected with
\* MISSING_CLIENT_ASSERTION_CLAIM.
C8_MissingAssertionNamed ==
  [][(GrantStep /\ req.grant_type = "client_credentials"
        /\ req.client_assertion_type = JWT_BEARER /\ req.scope # <<>>
        /\ req.client_assertion = Missing) =>
       (res'.err = "MISSING_CLIENT_ASSERTION_CLAIM")
    ]_vars

\* the checks of the access token request in the order of the specification,
\* each with the condition under which it is violated and the error it reports
C9_Checks(r, reg) ==
  << <<r.grant_type # "client_credentials", "INVALID_GRANT_TYPE_CLAIM">>,
     <<r.client_assertion_type # JWT_BEARER, "INVALID_CLIENT_ASSERTION_TYPE_CLAIM">>,
     <<r.client_assertion \in Assertions /\ r.client_assertion.payload.sub \notin DOMAIN reg,
       "INVALID_CLIENT_ID">>,
     <<r.scope = <<>>, "MISSING_SCOPE_CLAIM">>,
     <<r.scope # <<>> /\ r.client_assertion \in Assertions
         /\ r.client_assertion.payload.sub \in DOMAIN reg
         /\ C6_Offending(r.scope, reg[r.client_assertion.payload.sub]) # {},
       "INVALID_SCOPE_CLAIM">>,
     <<r.client_assertion = Missing, "MISSING_CLIENT_ASSERTION_CLAIM">>,
     <<r.client_assertion \in Assertions
         /\ ~C7_AudMatches(r.client_assertion.payload.aud, accesstokenURL),
       "INVALID_AUD_CLAIM">>,
     <<r.client_assertion \in Assertions /\ r.client_assertion.payload.sub \in DOMAIN reg
         /\ verifyToken(r.client_assertion, reg[r.client_assertion.payload.sub],
                        r.client_assertion.alg, r.client_assertion.kid, r.net) # Continue,
       "signature verification">> >>

C9_Violated(r, reg) == {i \in DOMAIN C9_Checks(r, reg) : C9_Checks(r, reg)[i][1]}

\* C9: generateAccessToken reports the error of the earliest violated check in
\* the order grant_type, client_assertion_type, Tool registered, scope present,
\* scopes authorized, client_assertion present, audience, signature, and
\* returns a token only if no check is violated.
C9_GrantOrder ==
  [][(GrantStep /\ req.client_assertion # Malformed) =>
       LET violated == C9_Violated(req, tools) IN
       /\ (violated = {}) <=> (res'.err = "")
       /\ (violated # {} /\ C4_Min(violated) < 8) =>
            (res'.err = C9_Checks(req, tools)[C4_Min(violated)][2])
       /\ (violated = {8}) =>
            (res'.err = verifyToken(req.client_assertion, tools[req.client_assertion.payload.sub],
                                    req.client_assertion.alg, req.client_assertion.kid, req.net))
    ]_vars

\* a service validates the token presented to it
ValidateStep == stage = "pending" /\ route = "service" /\ stage' = "done"

\* the scope value is one of the space-separated scopes the token was granted
C10_Granted(str, w) ==
  \E i, j \in DOMAIN str :
    /\ i <= j
    /\ SubSeq(str, i, j) = w
    /\ i = 1 \/ str[i - 1] = " "
    /\ j = Len(str) \/ str[j + 1] = " "

\* the token is an access token signed by the consumer that has not expired
C10_ValidToken(t, clock) ==
  /\ t # Malformed
  /\ t.signer = ENCRYPTIONKEY
  /\ "scopes" \in DOMAIN t.payload
  /\ clock < t.payload.exp

\* C10: validateAccessToken fails with INVALID_SCOPE_CLAIM, naming the scope,
\* for every validly signed, unexpired access token and every required scope
\* that is not among the scopes the token was granted, whether or not the
\* owning Tool is authorized for that scope.
C10_TokenScopeRequired ==
  [][(ValidateStep /\ C10_ValidToken(req.token, now)
        /\ ~C10_Granted(req.token.payload.scopes, req.scope)) =>
       /\ res'.err = "INVALID_SCOPE_CLAIM"
       /\ res'.detail = req.scope
       /\ res'.val = NoAction
    ]_vars

\* a token granted the memberships scope only is presented for the line item
\* scope, for which its Tool is authorized
C10_Witness ==
  /\ stage = "done"
  /\ route = "service"
  /\ held # NoReq
  /\ req.token = held
  /\ now < held.payload.exp
  /\ held.payload.clientId = "t2"
  /\ held.payload.scopes = <<"m">>
  /\ req.scope = <<"l">>
  /\ \E i \in DOMAIN tools["t2"].scopes : tools["t2"].scopes[i] = "LINEITEM"
  /\ res.err = "INVALID_SCOPE_CLAIM"

----------------------------------------------------------------------------
(* The Tool registry at validation time *)

\* the Tool the held token is bound to no longer authorizes the scope, or is deleted
C11_Withdrawn(reg, token, scope) ==
  \/ token.payload.clientId \notin DOMAIN reg
  \/ \A i \in DOMAIN reg[token.payload.clientId].scopes :
        validScopes[reg[token.payload.clientId].scopes[i]] # scope

\* C11: validateAccessToken checks the Tool registry as it is when the token is
\* validated: a validation of the held token for a scope fails whenever the
\* token's Tool is deleted or its authorized scopes do not include that scope
\* at that time, and the privacy level of a successful validation is the one
\* the Tool has in the registry at that time.
C11_RegistryAtValidation ==
  [][(ValidateStep /\ held # NoReq /\ req.token = held) =>
       /\ C11_Withdrawn(tools, held, req.scope) => (res'.err # "" /\ res'.val = NoAction)
       /\ (res'.err = "") => (res'.val.privacy = tools[held.payload.clientId].privacy)
    ]_vars

\* a token granted the memberships scope is refused for that scope before it
\* expires, after its Tool's scopes were updated
C11_Witness ==
  /\ stage = "done"
  /\ route = "service"
  /\ held # NoReq
  /\ req.token = held
  /\ now < held.payload.exp
  /\ req.scope = <<"m">>
  /\ C10_Granted(held.payload.scopes, <<"m">>)
  /\ held.payload.clientId \in DOMAIN tools
  /\ C11_Withdrawn(tools, held, <<"m">>)
  /\ res.err = "INVALID_SCOPE_CLAIM"

----------------------------------------------------------------------------
(* The lifetime of an access token *)

\* the service validates the held token for one of the scopes it was granted
C12_HeldForGranted ==
  /\ ValidateStep
  /\ held # NoReq
  /\ req.token = held
  /\ C10_Granted(held.payload.scopes, req.scope)

\* C12 as stated: an issued token is accepted for each of its granted scopes
\* at every time before its expiry, whatever operations happened since it was
\* issued, and rejected with INVALID_ACCESS_TOKEN from its expiry on.
C12_NeverRevocable ==
  [][C12_HeldForGranted =>
       /\ held.payload.exp = held.payload.iat + 3600
       /\ (now < held.payload.exp) => (res'.err = "")
       /\ (now >= held.payload.exp) => (res'.err = "INVALID_ACCESS_TOKEN")
    ]_vars

\* C12: an issued token expires 3600 seconds after it was issued: from then on
\* it is rejected with INVALID_ACCESS_TOKEN whatever the registry holds, and
\* before that it is accepted for each of its granted scopes exactly when its
\* Tool is still registered and still authorizes the scope; no operation
\* revokes the token itself.
C12_ExpiresAfterLifetime ==
  [][C12_HeldForGranted =>
       /\ held.payload.exp = held.payload.iat + 3600
       /\ (now >= held.payload.exp) => (res'.err = "INVALID_ACCESS_TOKEN")
       /\ (now < held.payload.exp) =>
            ((res'.err = "") <=> ~C11_Withdrawn(tools, held, req.scope))
    ]_vars

\* a token is presented at the second of its expiry for a scope it was granted
\* and its Tool still authorizes
C12_Witness ==
  /\ stage = "done"
  /\ route = "service"
  /\ held # NoReq
  /\ req.token = held
  /\ C10_Granted(held.payload.scopes, req.scope)
  /\ ~C11_Withdrawn(tools, held, req.scope)
  /\ now = held.payload.iat + 3600
  /\ res.err = "INVALID_ACCESS_TOKEN"

----------------------------------------------------------------------------
(* The ID Token of a launch *)

\* buildIdToken produced a token from the launch intent of the request being served
IdTokenBuilt ==
  /\ stage = "done"
  /\ route = "login"
  /\ idtoken # NoReq
  /\ idtoken.err = ""

\* C13: the deep linking correlation state validateLoginRequest generates for
\* a DEEPLINKING_LAUNCH login is the value of the correlation-state parameter
\* of the deep_link_return_url buildIdToken puts in the ID Token of that launch.
C13_CorrelationStateInReturnUrl ==
  (IdTokenBuilt /\ locals.serviceAction.params.type = DEEPLINKING_LAUNCH) =>
    LET returnUrl == idtoken.val.payload.deep_linking_settings.deep_link_return_url IN
    /\ locals.serviceAction.dlState # Absent
    /\ returnUrl.query.dlState = locals.serviceAction.dlState

\* the login route answered the request with a LaunchIntent
C14_IntentReturned == stage = "done" /\ route = "login" /\ res.err = ""

\* C14: a LaunchIntent returned by validateLoginRequest carries a deep linking
\* correlation state iff its launch kind, which is the one of the decoded
\* launch hint, is DEEPLINKING_LAUNCH, and its client id, deployment id, user,
\* redirect URI and state are the request's client_id, lti_deployment_id,
\* login_hint, redirect_uri and state.
C14_IntentFromRequest ==
  C14_IntentReturned =>
    /\ res.val.params.type = req.lti_message_hint.payload.type
    /\ (res.val.dlState # Absent) <=> (res.val.params.type = DEEPLINKING_LAUNCH)
    /\ res.val.clientId = req.client_id
    /\ res.val.deploymentId = req.lti_deployment_id
    /\ res.val.params.user = req.login_hint
    /\ res.val.params.redirectUri = req.redirect_uri
    /\ res.val.params.state = req.state

\* a resource launch with a state parameter was validated: its intent has the
\* state and no correlation state
C14_Witness ==
  /\ C14_IntentReturned
  /\ req.lti_message_hint.payload.type = RESOURCE_LAUNCH
  /\ req.state = "s1"
  /\ res.val.params.state = "s1"
  /\ res.val.dlState = Absent

\* buildIdToken produces a token from the launch intent of the request being served
BuildStep ==
  /\ stage = "done"
  /\ route = "login"
  /\ idtoken = NoReq
  /\ idtoken' # NoReq
  /\ idtoken'.err = ""

\* the privacy level that applies to the launch
C15_Level(intent, reg, lnk) ==
  IF intent.params.type = DEEPLINKING_LAUNCH THEN reg[intent.clientId].privacy
  ELSE IF lnk[intent.params.toolLink].privacy = "INHERIT" THEN reg[intent.clientId].privacy
  ELSE lnk[intent.params.toolLink].privacy

\* C15: the ID Token has the email claim iff the effective privacy level is
\* EMAIL or COMPLETE and the given_name, family_name and name claims iff it is
\* NAME or COMPLETE, where the effective level is the Tool's for a deep linking
\* launch and, for a resource launch, the ToolLink's unless that is INHERIT,
\* in which case it is the Tool's.
C15_PrivacyGatesClaims ==
  [][BuildStep =>
       LET level == C15_Level(locals.serviceAction, tools, links)
           claims == DOMAIN idtoken'.val.payload
       IN /\ ("email" \in claims) <=> (level \in {"EMAIL", "COMPLETE"})
          /\ ("given_name" \in claims) <=> (level \in {"NAME", "COMPLETE"})
          /\ ("family_name" \in claims) <=> (level \in {"NAME", "COMPLETE"})
          /\ ("name" \in claims) <=> (level \in {"NAME", "COMPLETE"})
          /\ ("email" \in claims) => (idtoken'.val.payload.email = IdentityData.user.email)
          /\ ("name" \in claims) => (idtoken'.val.payload.name = IdentityData.user.name)
    ]_vars

\* the token of a resource launch whose ToolLink inherits the level EMAIL of
\* its Tool has the email claim and no name claim
C15_Witness ==
  /\ IdTokenBuilt
  /\ locals.serviceAction.params.type = RESOURCE_LAUNCH
  /\ locals.serviceAction.clientId \in DOMAIN tools
  /\ locals.serviceAction.params.toolLink \in DOMAIN links
  /\ links[locals.serviceAction.params.toolLink].privacy = "INHERIT"
  /\ tools[locals.serviceAction.clientId].privacy = "EMAIL"
  /\ "email" \in DOMAIN idtoken.val.payload
  /\ "given_name" \notin DOMAIN idtoken.val.payload
  /\ "family_name" \notin DOMAIN idtoken.val.payload
  /\ "name" \notin DOMAIN idtoken.val.payload

----------------------------------------------------------------------------
(* The order of the checks of a deep linking response *)

\* the Tool that issued the response, when the response names a registered one
C16_Issuer(r, reg) ==
  IF r.JWT # Missing /\ r.JWT # Malformed /\ r.JWT.payload.iss \in DOMAIN reg
  THEN reg[r.JWT.payload.iss] ELSE Null

\* the checks in the order of the specification, each with the condition
\* under which it is violated and the error it reports; the error of the
\* signature verification is the one the assertion verifier gives
C16_Checks(r, db, reg) ==
  LET tool == C16_Issuer(r, reg) IN
  << <<r.JWT = Missing, "MISSING_JWT_PARAMETER">>,
     <<r.JWT # Missing /\ tool = Null, "TOOL_NOT_FOUND">>,
     <<tool # Null /\ verifyToken(r.JWT, tool, r.JWT.alg, r.JWT.kid, r.net) # Continue,
       IF tool # Null THEN verifyToken(r.JWT, tool, r.JWT.alg, r.JWT.kid, r.net) ELSE "">>,
     <<tool # Null /\ r.JWT.payload.nonce # NoNonce /\ db[r.JWT.payload.nonce] > 0,
       "NONCE_ALREADY_RECEIVED">>,
     <<tool # Null /\ r.JWT.payload.aud # consumer.url, "INVALID_AUD_CLAIM">>,
     <<tool # Null /\ r.JWT.payload.deployment_id # tool.deploymentId, "INVALID_DEPLOYMENT_ID_CLAIM">>,
     <<tool # Null /\ r.JWT.payload.message_type # DEEPLINKING_RESPONSE, "INVALID_MESSAGE_TYPE_CLAIM">>,
     <<tool # Null /\ r.JWT.payload.version # "1.3.0", "INVALID_VERSION_CLAIM">> >>

C16_Violated(r, db, reg) == {i \in DOMAIN C16_Checks(r, db, reg) : C16_Checks(r, db, reg)[i][1]}

\* C16: validateDeepLinkingRequest reports the error of the earliest violated
\* check in the order JWT parameter present, issuing Tool registered
\* (TOOL_NOT_FOUND), signature verification, nonce (if present) accepted by
\* the ledger, audience, deployment id, message type, version, and produces
\* a result only if no check is violated.
C16_DeepLinkingOrder ==
  [][DLStep =>
       LET violated == C16_Violated(req, nonceDB, tools) IN
       /\ (violated # {}) =>
            /\ res'.err = C16_Checks(req, nonceDB, tools)[C4_Min(violated)][2]
            /\ res'.val = NoAction
       /\ (violated = {}) =>
            /\ res'.err = ""
            /\ res'.val # NoAction
    ]_vars

----------------------------------------------------------------------------
(* The Authorization header *)

MembershipsStep == stage = "pending" /\ route = "memberships" /\ stage' = "done"

\* the header has exactly two space-separated parts, the first of which is the
\* scheme Bearer in some letter case
C17_BearerHeader(a) ==
  /\ Len(a) = 3
  /\ a[1] \in {"Bearer", "bearer", "BEARER"}
  /\ a[2] = " "
  /\ a[3] # " "

\* C17: a header of two space-separated parts whose first part is Bearer in
\* any letter case is accepted: its second part is passed to the validation
\* of access tokens, the outcome of which is the outcome of the check.
C17_SchemeAnyCase ==
  [][(MembershipsStep /\ C17_BearerHeader(req.authorization)) =>
       /\ res'.err # "INVALID_AUTHORIZATION_HEADER"
       /\ res' = validateAccessToken(tokenOf(<<req.authorization[3]>>, held), validScopes.MEMBERSHIPS,
                                     ENCRYPTIONKEY, tools, now)
    ]_vars

----------------------------------------------------------------------------
(* The handler that answers a request *)

\* validation failed: the invalid request callback of the route is called
\* with the message of the error in res.locals.err
C18_Rejected(callback, status) ==
  /\ res'.err # ""
  /\ called' = callback
  /\ locals'.err # Null
  /\ locals'.err.message = res'.err
  /\ locals'.err.status = status
  /\ locals'.serviceAction = NoAction

\* validation succeeded: the callback is called with the result, which is in
\* res.locals.serviceAction, and res.locals.err is not set
C18_Served(callback) ==
  /\ res'.err = ""
  /\ called' = callback
  /\ locals'.err = Null
  /\ locals'.serviceAction = res'.val

\* C18: on the login, deep linking and access token routes a request is
\* answered by one handler: the launch callback (the deep linking launch
\* callback iff the type of the intent is DEEPLINKING_LAUNCH), the deep
\* linking request callback or the 200 response with the token iff its
\* validation succeeded, and otherwise the invalid request callback of the
\* route with the message of the error in res.locals.err; whatever the
\* outcome, the response is sent and the server takes the next request.
C18_OneHandler ==
  /\ [][/\ LoginStep =>
            /\ res' = validateLoginRequest(req, ENCRYPTIONKEY, nonceDB, tools).res
            /\ \/ C18_Rejected("invalidLoginRequestCallback", 401)
               \/ /\ res'.val.params.type = DEEPLINKING_LAUNCH
                  /\ C18_Served("deepLinkingLaunchCallback")
               \/ /\ res'.val.params.type # DEEPLINKING_LAUNCH
                  /\ C18_Served("coreLaunchCallback")
        /\ DLStep =>
            /\ res' = validateDeepLinkingRequest(req, DLQuery, nonceDB, tools).res
            /\ \/ C18_Rejected("invalidDeepLinkingRequestCallback", 400)
               \/ C18_Served("deepLinkingRequestCallback")
        /\ GrantStep =>
            /\ res' = generateAccessToken(req, consumer, ENCRYPTIONKEY, tools, now)
            /\ \/ C18_Rejected("invalidAccessTokenRequestCallback", 400)
               \/ res'.err = "" /\ called' = "send200" /\ locals' = EmptyLocals
       ]_vars
  /\ [](stage = "done" => ENABLED Respond)
  /\ [](stage = "idle" =>
          ENABLED RoutesReceiveLogin /\ ENABLED ReplayReceiveDeepLinking /\ ENABLED ServiceReceiveAccessToken)

\* a login request is handed to the core launch callback after a deep
\* linking response was rejected
C18_Witness ==
  /\ remembered # NoReq
  /\ remembered.err # ""
  /\ stage = "done"
  /\ route = "login"
  /\ res.err = ""
  /\ called = "coreLaunchCallback"
  /\ locals.serviceAction = res.val

----------------------------------------------------------------------------
(* The failures of buildIdToken *)

\* buildIdToken is called and ends, with a token or with an error
BuildCall ==
  /\ stage = "done"
  /\ route = "login"
  /\ idtoken = NoReq
  /\ idtoken' # NoReq

\* the error the claim names for the arguments and the registries, "" for none
C19_Error(serviceAction, _idtoken, reg, lnk) ==
  IF serviceAction = Null THEN "MISSING_LOGIN_REQUEST_PARAMETER"
  ELSE IF _idtoken = Null THEN "MISSING_IDTOKEN_PARAMETER"
  ELSE IF serviceAction.clientId \notin DOMAIN reg THEN "INVALID_CLIENT_ID_CLAIM"
  ELSE IF serviceAction.params.type # DEEPLINKING_LAUNCH
            /\ serviceAction.params.toolLink \notin DOMAIN lnk
       THEN "INVALID_TOOL_LINK_ID"
  ELSE ""

\* C19: buildIdToken fails, producing no token, with
\* MISSING_LOGIN_REQUEST_PARAMETER if the launch intent is absent, else
\* MISSING_IDTOKEN_PARAMETER if the identity data is absent, else
\* INVALID_CLIENT_ID_CLAIM if the Tool of the intent is not registered any
\* more, else, unless the launch is a deep linking launch,
\* INVALID_TOOL_LINK_ID if the ToolLink does not exist; in every other case,
\* a deep linking launch whose ToolLink does not exist included, it
\* produces a token.
C19_BuildFailures ==
  [][BuildCall =>
       LET expected == C19_Error(idtoken'.serviceAction, idtoken'._idtoken, tools, links) IN
       /\ idtoken'.err = expected
       /\ (expected # "") <=> (idtoken'.val = NoAction)
       /\ (expected = "") => (idtoken'.val.payload.aud = idtoken'.serviceAction.clientId)
    ]_vars

\* the Tool was deleted after its login request had been validated, and
\* buildIdToken, given the intent and the identity data, fails
C19_Witness ==
  /\ stage = "done"
  /\ route = "login"
  /\ res.err = ""
  /\ idtoken # NoReq
  /\ idtoken.serviceAction = res.val
  /\ idtoken._idtoken = IdentityData
  /\ res.val.clientId \notin DOMAIN tools
  /\ idtoken.err = "INVALID_CLIENT_ID_CLAIM"
  /\ idtoken.val = NoAction

----------------------------------------------------------------------------
(* The custom claim *)

\* C20: the custom claim of the ID Token of a resource launch has the keys of
\* the Tool's and of the ToolLink's custom parameters, with the ToolLink's
\* value for every key the ToolLink defines and the Tool's value for the
\* others; the custom claim of the ID Token of a deep linking launch is the
\* Tool's custom parameters.
C20_CustomMerged ==
  [][BuildStep =>
       LET intent == locals.serviceAction
           custom == idtoken'.val.payload.custom
           ofTool == tools[intent.clientId].customParameters
       IN IF intent.params.type = DEEPLINKING_LAUNCH THEN custom = ofTool
          ELSE LET ofLink == links[intent.params.toolLink].customParameters IN
               /\ DOMAIN custom = DOMAIN ofTool \cup DOMAIN ofLink
               /\ \A k \in DOMAIN ofLink : custom[k] = ofLink[k]
               /\ \A k \in DOMAIN ofTool \ DOMAIN ofLink : custom[k] = ofTool[k]
    ]_vars

\* the ID Token of a resource launch of a Tool and a ToolLink that both
\* define the custom parameter b
C20_Witness ==
  /\ IdTokenBuilt
  /\ locals.serviceAction.params.type = RESOURCE_LAUNCH
  /\ locals.serviceAction.clientId \in DOMAIN tools
  /\ locals.serviceAction.params.toolLink \in DOMAIN links
  /\ "b" \in DOMAIN tools[locals.serviceAction.clientId].customParameters
  /\ "b" \in DOMAIN links[locals.serviceAction.params.toolLink].customParameters
  /\ tools[locals.serviceAction.clientId].customParameters.b
       # links[locals.serviceAction.params.toolLink].customParameters.b
  /\ idtoken.val.payload.custom =
       [a |-> "tool-a", b |-> "link-b", c |-> "link-c"]

C22_Symmetric(alg) == alg = "HS256"

\* C22: a deep linking response or a client assertion whose header names the
\* algorithm "none", or a symmetric algorithm while the Tool's authentication
\* method registers a public key, is rejected, whoever signed it and whatever
\* its header says.
C22_AlgorithmFamily ==
  [][/\ (DLStep /\ (req.JWT.alg = "none" \/ C22_Symmetric(req.JWT.alg))) => (res'.err # "")
     /\ (GrantStep /\ (req.client_assertion.alg = "none" \/ C22_Symmetric(req.client_assertion.alg)))
          => (res'.err # "")
    ]_vars

\* the error key resolution ends with for a Tool, the key id of the token and
\* the answer of the keyset endpoint, in the cases listed; Continue otherwise
C23_KeyError(tool, kid, net) ==
  LET authConfig == tool.authConfig IN
  IF authConfig.method = "JWK_SET"
  THEN IF kid = Absent THEN "MISSING_KID_PARAMETER"
       ELSE IF net \notin {NetDown, NoKeys} /\ \A i \in DOMAIN net.keys : net.keys[i].kid # kid
            THEN "KEY_NOT_FOUND"
       ELSE Continue
  ELSE IF authConfig.method \in {"JWK_KEY", "RSA_KEY"}
  THEN IF authConfig.key = Absent THEN "KEY_NOT_FOUND" ELSE Continue
  ELSE "AUTHCONFIG_NOT_FOUND"

\* the client assertion of the request gets to the verification of its signature
C23_ReachesVerify(r, reg) ==
  /\ r.client_assertion.payload.sub \in DOMAIN reg
  /\ firstInvalidScope(split(r.scope), reg[r.client_assertion.payload.sub].scopes) = 0

\* C23: key resolution goes by the Tool's authentication method.  With
\* JWK_SET a token without key id fails with MISSING_KID_PARAMETER whatever the
\* keyset endpoint would answer, and a key id no entry of the fetched keyset
\* carries fails with KEY_NOT_FOUND; with JWK_KEY and RSA_KEY an absent key
\* fails with KEY_NOT_FOUND; with any other method, or none, the failure is
\* AUTHCONFIG_NOT_FOUND.  In each of these cases the caller gets the error
\* and nothing else: no result, no access token, no nonce recorded.
C23_KeyResolution ==
  [][/\ (DLStep /\ req.JWT.payload.iss \in DOMAIN tools) =>
          LET err == C23_KeyError(tools[req.JWT.payload.iss], req.JWT.kid, req.net) IN
          (err # Continue) => (res'.err = err /\ res'.val = NoAction /\ nonceDB' = nonceDB)
     /\ (GrantStep /\ C23_ReachesVerify(req, tools)) =>
          LET err == C23_KeyError(tools[req.client_assertion.payload.sub],
                                  req.client_assertion.kid, req.net) IN
          (err # Continue) => (res'.err = err /\ res'.val = NoAction)
    ]_vars

\* a deep linking response without key id, of a Tool whose keys are in a
\* keyset, sent while the keyset endpoint is down, after the authentication
\* method of the other Tool was taken away
C23_Witness ==
  /\ stage = "done"
  /\ route = "deeplinking"
  /\ req.JWT.payload.iss = "t2"
  /\ "t2" \in DOMAIN tools
  /\ tools["t2"].authConfig.method = "JWK_SET"
  /\ tools["t1"].authConfig.method = Undefined
  /\ req.JWT.kid = Absent
  /\ req.JWT.payload.nonce # NoNonce
  /\ req.net = NetDown
  /\ res.err = "MISSING_KID_PARAMETER"

\* a route calls the handler in one of the four callback slots
C24_Calls(slot) == stage = "pending" /\ stage' = "done" /\ called' = slot /\ sent' # <<>>

\* C24 as stated: the handler of a slot can be replaced once, and before
\* deploy only: once a handler has been registered for a slot, or the
\* Consumer has been deployed, a registration does not change the slot.
C24_OverridableOnce ==
  [][\A slot \in DOMAIN DefaultCallbacks :
       (instance.callbacks[slot] # "default" \/ instance.deployed) =>
         (instance'.callbacks[slot] = instance.callbacks[slot])
    ]_vars

\* C24 amended: every slot holds at first a handler that answers 500 with the
\* MISSING_*_CALLBACK message of the slot; a registration with a handler
\* replaces the handler of its slot whenever it is made, before or after
\* deploy and whatever was registered before, and changes no other slot; a
\* request is answered by the handler its slot holds when the route calls it.
C24_LastRegistrationServes ==
  /\ [](\A slot \in DOMAIN DefaultCallbacks, cb \in {"h1", "h2"} :
          ENABLED (Register /\ instance'.callbacks = [instance.callbacks EXCEPT ![slot] = cb]))
  /\ [](~instance.deployed /\ instance.callbacks = DefaultCallbacks =>
          \A slot \in DOMAIN DefaultCallbacks :
            callbackAnswer(instance.callbacks, slot).status = 500)
  /\ [][\A slot \in DOMAIN DefaultCallbacks :
          C24_Calls(slot) =>
            /\ sent'[Len(sent')].by = instance.callbacks[slot]
            /\ (instance.callbacks[slot] = "default") =>
                 sent'[Len(sent')] =
                   Answer(500,
                          CASE slot = "coreLaunchCallback" -> "MISSING_CORE_LAUNCH_CALLBACK"
                            [] slot = "deepLinkingLaunchCallback" -> "MISSING_DEEPLINKING_LAUNCH_CALLBACK"
                            [] slot = "deepLinkingRequestCallback" -> "MISSING_DEEPLINKING_REQUEST_CALLBACK"
                            [] slot = "membershipsRequestCallback" -> "MISSING_MEMBERSHIPS_REQUEST_CALLBACK",
                          "default")
       ]_vars

\* a launch answered by a handler that replaced, after deploy, the handler
\* registered before, while another slot still holds its default handler
C24_Witness ==
  /\ stage = "done"
  /\ route = "login"
  /\ called = "coreLaunchCallback"
  /\ "coreLaunchCallback" \in instance.late
  /\ instance.callbacks["coreLaunchCallback"] = "h2"
  /\ instance.callbacks["deepLinkingRequestCallback"] = "default"
  /\ sent = <<Answer(200, "", "h2")>>

\* C25: the memberships request callback is called exactly for the requests
\* whose Authorization header names an access token that is accepted for the
\* memberships scope; for every other request one error response is sent and
\* the callback is not called.
C25_CallbackOnlyAfterAcceptedToken ==
  [][MembershipsStep =>
       LET out == routeValidateAccessToken(req.authorization, validScopes.MEMBERSHIPS,
                                           ENCRYPTIONKEY, tools, now, held) IN
       /\ (out.err = "") => (called' = "membershipsRequestCallback")
       /\ (out.err # "") =>
            /\ called' \in {"send400", "send401"}
            /\ Len(sent') = 1
            /\ sent'[1].status \in {400, 401}
            /\ sent'[1].message = out.err
    ]_vars

\* the nonce the request of a worker carries, NoNonce if it carries none
C26_NonceOf(proc) ==
  IF proc.route = "login" THEN proc.req.nonce
  ELSE IF proc.route = "deeplinking" THEN proc.req.JWT.payload.nonce
  ELSE NoNonce

\* the outcome of the request of a worker handled alone, with an empty ledger
C26_Alone(proc) ==
  IF proc.route = "login" THEN validateLoginRequest(proc.req, ENCRYPTIONKEY, EmptyDB, tools).res
  ELSE IF proc.route = "deeplinking" THEN validateDeepLinkingRequest(proc.req, DLQuery, EmptyDB, tools).res
  ELSE IF proc.route = "accesstoken" THEN generateAccessToken(proc.req, consumer, ENCRYPTIONKEY, tools, now)
  ELSE validateAccessToken(proc.req.token, proc.req.scope, ENCRYPTIONKEY, tools, now)

\* C26: of all the state only the nonce ledger changes when the operations
\* of the Auth class run, and only where validateLoginRequest and
\* validateDeepLinkingRequest store the nonce of their request: that step adds
\* one record, for that nonce, and every other step of every operation,
\* buildIdToken, generateAccessToken and validateAccessToken included, leaves
\* the ledger as it is.  So a request whose nonce no other request presents
\* ends, under every interleaving, as it ends when handled alone.
C26_LedgerOnlyState ==
  /\ [][/\ tools' = tools /\ links' = links /\ now' = now
        /\ \A p \in Procs :
             (procs'[p] # procs[p]) =>
               IF procs[p].pc = "insert" /\ C26_NonceOf(procs[p]) # NoNonce
               THEN nonceDB' = [nonceDB EXCEPT ![C26_NonceOf(procs[p])] = @ + 1]
               ELSE nonceDB' = nonceDB
       ]_vars
  /\ [](\A p \in Procs :
          (/\ procs[p].pc \in {"done", "built"}
           /\ \A q \in Procs \ {p} :
                C26_NonceOf(procs[p]) = NoNonce \/ C26_NonceOf(procs[q]) # C26_NonceOf(procs[p]))
          => /\ procs[p].res = C26_Alone(procs[p])
             /\ (procs[p].pc = "built") =>
                  procs[p].built = buildIdToken(procs[p].res.val, IdentityData, consumer,
                                                tools, links, "n1"))

\* a launch whose ID Token was built while another worker had a deep linking
\* response with another nonce accepted: both nonces are recorded, once each
C26_Witness ==
  \E p, q \in Procs :
    /\ procs[p].pc = "built"
    /\ procs[p].built.err = ""
    /\ procs[q].pc = "done"
    /\ procs[q].route = "deeplinking"
    /\ procs[q].res.err = ""
    /\ C26_NonceOf(procs[q]) # NoNonce
    /\ C26_NonceOf(procs[q]) # C26_NonceOf(procs[p])
    /\ nonceDB[C26_NonceOf(procs[p])] = 1
    /\ nonceDB[C26_NonceOf(procs[q])] = 1

\* the errors of the checks validateLoginRequest makes after the nonce step
C27_LaterLoginErrors ==
  {"INVALID_SCOPE_CLAIM", "INVALID_RESPONSE_TYPE_CLAIM", "INVALID_RESPONSE_MODE_CLAIM",
   "INVALID_PROMPT_CLAIM", "MISSING_CLIENT_ID_CLAIM", "INVALID_CLIENT_ID_CLAIM",
   "MISSING_LTI_DEPLOYMENT_ID_CLAIM", "INVALID_LTI_DEPLOYMENT_ID_CLAIM",
   "MISSING_REDIRECT_URI_CLAIM", "INVALID_REDIRECT_URI_CLAIM", "MISSING_LOGIN_HINT_CLAIM"}

\* the errors of the claim checks of validateDeepLinkingRequest
C27_LaterDLErrors ==
  {"INVALID_AUD_CLAIM", "INVALID_DEPLOYMENT_ID_CLAIM", "INVALID_MESSAGE_TYPE_CLAIM",
   "INVALID_VERSION_CLAIM"}

\* C27: a login request with a valid launch hint and a fresh nonce that fails
\* one of the later checks leaves its nonce recorded, and a retry with the
\* same nonce is rejected with NONCE_ALREADY_RECEIVED, corrected or not; the
\* same holds for a validly signed deep linking response that fails the
\* audience, deployment id, message type or version check.
C27_NonceBurnedByFailure ==
  [][/\ (LoginStep /\ res'.err \in C27_LaterLoginErrors) =>
          (nonceDB[req.nonce] = 0 /\ nonceDB'[req.nonce] = 1)
     /\ (LoginStep /\ remembered # NoReq /\ "login" \in DOMAIN remembered
            /\ remembered.err \in C27_LaterLoginErrors
            /\ req.nonce = remembered.login.nonce) =>
          (res'.err = "NONCE_ALREADY_RECEIVED" /\ called' = "invalidLoginRequestCallback")
     /\ (DLStep /\ res'.err \in C27_LaterDLErrors) =>
          (nonceDB[req.JWT.payload.nonce] = 0 /\ nonceDB'[req.JWT.payload.nonce] = 1)
     /\ (DLStep /\ remembered # NoReq /\ "JWT" \in DOMAIN remembered
            /\ remembered.err \in C27_LaterDLErrors
            /\ req.JWT.payload.nonce = remembered.JWT.payload.nonce) =>
          (res'.err = "NONCE_ALREADY_RECEIVED" /\ called' = "invalidDeepLinkingRequestCallback")
    ]_vars

\* the retry, with the redirect URI corrected, of a login request that was
\* rejected for its redirect URI
C27_Witness ==
  /\ stage = "done"
  /\ route = "login"
  /\ remembered # NoReq
  /\ "login" \in DOMAIN remembered
  /\ remembered.err = "INVALID_REDIRECT_URI_CLAIM"
  /\ req = [remembered.login EXCEPT !.redirect_uri = "u1"]
  /\ res.err = "NONCE_ALREADY_RECEIVED"
  /\ accepted[req.nonce] = 1

\* the response was signed by the Tool it names as issuer: its signature was
\* made with the private key of the Tool, which the registered key verifies
C28_SignedByIssuer(r, reg) == r.JWT.alg = "RS256" /\ ValidlySigned(r, reg)

\* C28: the nonce of a deep linking response is looked up and recorded only
\* after the signature of the response has been verified with the key of the
\* issuing Tool: a response that names an unknown Tool or whose verification
\* fails leaves the ledger as it was, so that only a response signed by the
\* Tool it names can have a nonce recorded.
C28_NonceOnlyAfterSignature ==
  [][DLStep =>
       /\ ~ValidlySigned(req, tools) => (nonceDB' = nonceDB)
       /\ (nonceDB' # nonceDB) => C28_SignedByIssuer(req, tools)
    ]_vars

\* C29: the nonce check applies only when the verified claims carry a nonce:
\* a validly signed deep linking response without a nonce claim leaves the
\* ledger as it was and is never rejected for its nonce; with valid claims
\* it is accepted, and submitted again it gets the outcome it got before,
\* whatever the ledger holds.
C29_NoNonceNoLedger ==
  [][(DLStep /\ ValidlySigned(req, tools) /\ req.JWT.payload.nonce = NoNonce) =>
       /\ nonceDB' = nonceDB
       /\ accepted' = accepted
       /\ res'.err # "NONCE_ALREADY_RECEIVED"
       /\ (dlClaimChecks(req.JWT.payload, getTool(tools, req.JWT.payload.iss)) = Continue) =>
            (res'.err = "" /\ called' = "deepLinkingRequestCallback")
       /\ (remembered # NoReq /\ req.JWT = remembered.JWT) => (res'.err = remembered.err)
    ]_vars

\* a response without a nonce accepted a second time, after a response with
\* a nonce has been recorded in between
C29_Witness ==
  /\ stage = "done"
  /\ route = "deeplinking"
  /\ remembered # NoReq
  /\ remembered.err = ""
  /\ req.JWT = remembered.JWT
  /\ req.JWT.payload.nonce = NoNonce
  /\ res.err = ""
  /\ called = "deepLinkingRequestCallback"
  /\ \E n \in Nonce : nonceDB[n] = 1

\* the keys the registration of a Tool resolves to for a token with the key
\* id given: the entries of its keyset with that key id, or its static key
C30_KeysOf(tool, kid, net) ==
  IF tool.authConfig.method = "JWK_SET"
  THEN IF net \in {NetDown, NoKeys} THEN {}
       ELSE {net.keys[i].key : i \in {j \in DOMAIN net.keys : net.keys[j].kid = kid}}
  ELSE IF tool.authConfig.method \in {"JWK_KEY", "RSA_KEY"}
  THEN {tool.authConfig.key} \ {Absent}
  ELSE {}

\* C30: an access token is bound to the client id of the Tool whose key
\* verified the client assertion: the client id of the token is the sub of
\* the assertion, that Tool is registered, and the signature of the assertion
\* verifies with a key the registration of that Tool resolves to; no token
\* is bound to a Tool whose key does not verify the assertion.
C30_TokenBoundToVerifiedTool ==
  [][(GrantStep /\ res'.err = "") =>
       LET assertion == req.client_assertion
           bound == res'.val.access_token.payload.clientId
       IN /\ bound = assertion.payload.sub
          /\ bound \in DOMAIN tools
          /\ assertion.alg # "none"
          /\ assertion.signer \in C30_KeysOf(tools[bound], assertion.kid, req.net)
          /\ \A t \in DOMAIN tools :
               (assertion.signer \notin C30_KeysOf(tools[t], assertion.kid, req.net)) => (bound # t)
    ]_vars

\* a token bound to Tool t2 for an assertion signed with the key of the
\* keyset of t2, which the key registered for Tool t1 does not verify
C30_Witness ==
  /\ stage = "done"
  /\ route = "accesstoken"
  /\ res.err = ""
  /\ req.client_assertion.payload.sub = "t2"
  /\ res.val.access_token.payload.clientId = "t2"
  /\ req.client_assertion.signer = "k2"
  /\ "t1" \in DOMAIN tools
  /\ C30_KeysOf(tools["t1"], req.client_assertion.kid, req.net) = {"k1"}

\* setup (resp. deploy) is called
SetupStep == route' = "setup"

DeployStep == route' = "deploy"

\* the four things setup requires, in the order of the claim, each with
\* whether the arguments lack it and the error it is rejected with
C31_Checks(args) ==
  <<<<args.encryptionkey = Absent, "MISSING_ENCRYPTION_KEY">>,
    <<args.database = Null, "MISSING_DATABASE_CONFIGURATION">>,
    <<args.options = Null \/ args.options.consumerUrl = Absent, "MISSING_CONSUMER_URL_CONFIGURATION">>,
    <<args.options # Null /\ args.options.https
        /\ (args.options.ssl = Null \/ args.options.ssl.key = Absent \/ args.options.ssl.cert = Absent),
      "MISSING_SSL_KEY_CERTIFICATE">>>>

C31_Lacking(args) == {i \in DOMAIN C31_Checks(args) : C31_Checks(args)[i][1]}

\* the configuration of the Consumer: its routes, its URL and its encryption key
C31_Config(inst) ==
  <<inst.loginRoute, inst.keysetRoute, inst.accesstokenRoute, inst.deepLinkingRequestRoute,
    inst.membershipsRoute, inst.legacy, inst.consumerUrl, inst.consumer, inst.ENCRYPTIONKEY>>

\* C31: setup succeeds at most once per Consumer.  Once a setup has
\* succeeded the Consumer stays set up, every further call of setup throws
\* PROVIDER_ALREADY_SETUP and the routes, the consumer URL and the
\* encryption key stay as they are.  A call of setup that lacks the
\* encryption key, the database, the consumer URL or the SSL key or
\* certificate is rejected with the error of the first of these it lacks,
\* changes nothing and leaves the Consumer not set up.  The Consumer is set
\* up by a successful call of setup only, and until then every call of
\* deploy throws CONSUMER_NOT_SETUP.
C31_SetupAtMostOnce ==
  [][/\ (SetupStep /\ instance.setup) =>
          (res'.err = "PROVIDER_ALREADY_SETUP" /\ instance' = instance)
     /\ instance.setup => (instance'.setup /\ C31_Config(instance') = C31_Config(instance))
     /\ (SetupStep /\ res'.err = "") => (~instance.setup /\ instance'.setup)
     /\ (SetupStep /\ ~instance.setup /\ C31_Lacking(req') # {}) =>
          /\ res'.err = C31_Checks(req')[C4_Min(C31_Lacking(req'))][2]
          /\ instance' = instance
     /\ (~instance.setup /\ instance'.setup) => (SetupStep /\ res'.err = "")
     /\ (DeployStep /\ ~instance.setup) =>
          (res'.err = "CONSUMER_NOT_SETUP" /\ instance' = instance)
    ]_vars

\* a deployed Consumer whose setup is called again, with another encryption
\* key, another consumer URL and another login route
C31_Witness ==
  /\ route = "setup"
  /\ res.err = "PROVIDER_ALREADY_SETUP"
  /\ instance.setup
  /\ instance.deployed
  /\ req.encryptionkey = "key2"
  /\ instance.ENCRYPTIONKEY = ENCRYPTIONKEY
  /\ req.options # Null
  /\ req.options.consumerUrl = "https://lms2"
  /\ instance.consumerUrl = "https://lms"
  /\ req.options.loginRoute = "/login2"
  /\ instance.loginRoute = "/login"

====
